---- MODULE Spec2Model ----
(***************************************************************************)
(* TokenSmith: the ext_authz token pipeline of holos-run/tokensmith.       *)
(*                                                                         *)
(*   Server.Check            internal/authz/extauthz.go                    *)
(*   JWKSValidator.Validate  internal/token/jwks.go                        *)
(*   Validator.Validate      internal/token/validator.go                   *)
(*   ClustersConfig          internal/config/clusters.go                   *)
(*   Exchanger.Exchange      internal/token/exchanger.go                   *)
(*   Cache (Get/Set/cleanup) internal/token/exchanger.go (cache.go part)   *)
(*                                                                         *)
(* Time is counted in seconds.  The clock only visits the instants of      *)
(* Instants, which cluster around the program's durations so that every    *)
(* comparison of the code meets its boundary (equal, one below, one        *)
(* above).                                                                 *)
(***************************************************************************)
EXTENDS Integers, Sequences, FiniteSets, TLC

\* ------------------------------------------------------------------------
\* Bounds of the model
\* ------------------------------------------------------------------------

\* how many seconds after each base instant the clock can also stop at
Slack == 1

\* how many tokens the management cluster mints in one behaviour
MaxMints == 2

\* ------------------------------------------------------------------------
\* Program constants
\* ------------------------------------------------------------------------

\* go-jose Claims.Validate(expected) is ValidateWithLeeway(expected,
\* DefaultLeeway) with DefaultLeeway = 1 minute; jwks.go:85 calls it.
DefaultLeeway == 60

\* time.Hour, the freshness of a fetched JWKS (jwks.go:111), in seconds
JWKSFreshness == 3600

Instants ==
    UNION { { b + k : k \in 0..Slack } : b \in {0, DefaultLeeway, JWKSFreshness} }

\* ------------------------------------------------------------------------
\* Cluster registry (internal/config/clusters.go)
\* ------------------------------------------------------------------------

\* A JWKS is a sequence of keys, each with a key id and key material.
JWK(kid, key) == [kid |-> kid, key |-> key]

NoJWKS == << >>

\* *jose.JSONWebKeySet: the nil pointer, or a pointer to a key set (which
\* can have no keys)
NilJWKS == [nil |-> TRUE, Keys |-> NoJWKS]
JWKSPtr(keys) == [nil |-> FALSE, Keys |-> keys]

\* ClusterConfig
ClusterConfig(name, issuer, uri, data) ==
    [Name |-> name, Issuer |-> issuer, JWKSURI |-> uri, JWKSData |-> data]

NoCluster == ClusterConfig("", "", "", NilJWKS)

\* The registry the validator runs with: one cluster with inline keys (two
\* keys, as after a key rotation) and one cluster whose keys are fetched.
Clusters ==
    << ClusterConfig("c1", "https://k8s.example/c1", "",
                     JWKSPtr(<< JWK("k1", "key1"), JWK("k2", "key2") >>)),
       ClusterConfig("c2", "https://k8s.example/c2", "https://c2/jwks",
                     NilJWKS) >>

RECURSIVE FindFrom(_, _, _)
FindFrom(clusters, issuer, i) ==
    IF i > Len(clusters) THEN [found |-> FALSE, cluster |-> NoCluster]
    ELSE IF clusters[i].Issuer = issuer
         THEN [found |-> TRUE, cluster |-> clusters[i]]
         ELSE FindFrom(clusters, issuer, i + 1)

\* FindByIssuer as it would be if an unmatched issuer fell back to the first
\* entry of the registry.
FindByIssuerFallback(clusters, issuer) ==
    IF FindFrom(clusters, issuer, 1).found \/ Len(clusters) = 0
    THEN FindFrom(clusters, issuer, 1)
    ELSE [found |-> TRUE, cluster |-> clusters[1]]

\* ClustersConfig.FindByIssuer: the first entry whose issuer equals the
\* argument; found = FALSE stands for the nil result.
FindByIssuer(clusters, issuer) == FindFrom(clusters, issuer, 1)

\* ClusterConfig.Validate: the error, "" for nil
ClusterConfigValidate(c) ==
    IF c.Name = "" THEN "name is required"
    ELSE IF c.Issuer = "" THEN "issuer is required"
    ELSE IF c.JWKSURI = "" /\ c.JWKSData.nil
         THEN "either jwks_uri or jwks_data must be provided"
    ELSE IF ~c.JWKSData.nil /\ Len(c.JWKSData.Keys) = 0
         THEN "jwks_data must contain at least one key"
    ELSE ""

\* The loop of ClustersConfig.Validate from entry i on (i counts from 1, the
\* code from 0): the maps issuers and names hold those of the entries before.
RECURSIVE ValidateFrom(_, _)
ValidateFrom(clusters, i) ==
    IF i > Len(clusters) THEN ""
    ELSE IF ClusterConfigValidate(clusters[i]) # ""
         THEN "cluster[" \o ToString(i - 1) \o "]: "
                  \o ClusterConfigValidate(clusters[i])
    ELSE IF \E j \in 1..(i - 1) : clusters[j].Issuer = clusters[i].Issuer
         THEN "cluster[" \o ToString(i - 1) \o "]: duplicate issuer"
    ELSE IF \E j \in 1..(i - 1) : clusters[j].Name = clusters[i].Name
         THEN "cluster[" \o ToString(i - 1) \o "]: duplicate name"
    ELSE ValidateFrom(clusters, i + 1)

\* ClustersConfig.Validate as it would be if it only validated each entry.
ClustersConfigValidateEntriesOnly(clusters) ==
    IF Len(clusters) = 0 THEN "at least one cluster must be configured"
    ELSE IF \E i \in 1..Len(clusters) : ClusterConfigValidate(clusters[i]) # ""
         THEN "cluster: invalid"
    ELSE ""

\* ClustersConfig.Validate: the error, "" for nil
ClustersConfigValidate(clusters) ==
    IF Len(clusters) = 0 THEN "at least one cluster must be configured"
    ELSE ValidateFrom(clusters, 1)

\* ------------------------------------------------------------------------
\* Tokens presented by workloads
\* ------------------------------------------------------------------------

\* A claim value of the open-ended claim map: a string, a value of another
\* JSON type, or no value at all.
Str(s) == [kind |-> "string", s |-> s]
NotAString == [kind |-> "number", s |-> ""]
Missing == [kind |-> "missing", s |-> ""]

\* A JWT as the validator sees it after the compact serialisation has been
\* split: header (alg, kid), the key that actually signed it, the registered
\* claims (exp, nbf, iat are sets: empty when the claim is absent) and the
\* three Kubernetes claims.
JWT(alg, iss, kid, key, exp, nbf, iat, ns, name, uid) ==
    [alg |-> alg, iss |-> iss, kid |-> kid, key |-> key,
     exp |-> exp, nbf |-> nbf, iat |-> iat,
     ns |-> ns, name |-> name, uid |-> uid]

\* jose.SignatureAlgorithm list passed to jwt.ParseSigned
AllowedAlgs == {"RS256", "RS384", "RS512", "ES256", "ES384", "ES512"}

\* ServiceAccountIdentity
Identity(ns, name, uid, username) ==
    [Namespace |-> ns, Name |-> name, UID |-> uid, Username |-> username]

NoIdentity == Identity("", "", "", "")

\* Result of a validator: ok with an identity, or an error kind.
VOk(id) == [ok |-> TRUE, err |-> "", identity |-> id]
VErr(e) == [ok |-> FALSE, err |-> e, identity |-> NoIdentity]

\* extractServiceAccountIdentity: each of the three claims must be present
\* and a string (the Go type assertion .(string)); the username is derived.
extractServiceAccountIdentity(tok) ==
    IF tok.ns.kind # "string" THEN VErr("identity: namespace claim")
    ELSE IF tok.name.kind # "string" THEN VErr("identity: name claim")
    ELSE IF tok.uid.kind # "string" THEN VErr("identity: uid claim")
    ELSE VOk(Identity(tok.ns.s, tok.name.s, tok.uid.s,
                      "system:serviceaccount:" \o tok.ns.s \o ":" \o tok.name.s))

\* jwt.Claims.Validate(Expected{Time: now}) with the default leeway:
\*   nbf present and now + leeway before nbf   -> not valid yet
\*   exp present and now - leeway after exp    -> expired
\*   iat present and now + leeway before iat   -> issued in the future
ClaimsValidate(tok, now) ==
    IF \E t \in tok.nbf : now + DefaultLeeway < t THEN "not valid yet"
    ELSE IF \E t \in tok.exp : now - DefaultLeeway > t THEN "expired"
    ELSE IF \E t \in tok.iat : now + DefaultLeeway < t THEN "issued in the future"
    ELSE ""

\* Keys of a JWKS with the given key id (JSONWebKeySet.Key)
KeysWithID(jwks, kid) == SelectSeq(jwks, LAMBDA k : k.kid = kid)

\* VerifySignature as it would be if a key with the key id of the token were
\* taken as proof of the signature.
VerifySignatureKidOnly(tok, jwks) ==
    tok.kid # "" /\ Len(KeysWithID(jwks, tok.kid)) > 0

\* tok.Claims(jwks, ...): the key set is searched by the key id of the
\* token header; the first key with that id must verify the signature.
VerifySignature(tok, jwks) ==
    LET keys == KeysWithID(jwks, tok.kid)
    IN  tok.kid # "" /\ Len(keys) > 0 /\ keys[1].key = tok.key

\* Validate, steps 1-3 (jwks.go:45-68): ParseSigned accepts only a compact
\* JWT whose alg is in the list; the issuer read from the unverified claims
\* must be in the registry.  cred is the credential string, tok the JWT it
\* is the serialisation of ("tok" is the only string that parses).
ValidateIssuer(cred, tok) ==
    IF cred # "tok" \/ tok.alg \notin AllowedAlgs THEN VErr("failed to parse token")
    ELSE IF ~FindByIssuer(Clusters, tok.iss).found
         THEN VErr("unknown issuer: " \o tok.iss)
         ELSE VOk(NoIdentity)

\* Validate, steps 5-8 (jwks.go:76-95), once the key set is at hand.
ValidateWithKeys(tok, jwks, now) ==
    IF ~VerifySignature(tok, jwks) THEN VErr("failed to verify token")
    ELSE IF ClaimsValidate(tok, now) # ""
         THEN VErr("invalid claims: " \o ClaimsValidate(tok, now))
         ELSE extractServiceAccountIdentity(tok)

\* ------------------------------------------------------------------------
\* JWKS provider (jwks.go:99-130)
\* ------------------------------------------------------------------------

URIs == { Clusters[i].JWKSURI : i \in 1..Len(Clusters) } \ {""}

\* cachedJWKS; present = FALSE stands for "no map entry"
CachedJWKS(jwks, at) == [present |-> TRUE, jwks |-> jwks, fetchedAt |-> at]
NoCachedJWKS == [present |-> FALSE, jwks |-> NoJWKS, fetchedAt |-> 0]

\* getJWKS as it would be if a cache entry were still used at the age of one
\* hour.
getJWKSInclusive(cluster, cache, now) ==
    IF ~cluster.JWKSData.nil
    THEN [fetch |-> FALSE, jwks |-> cluster.JWKSData.Keys]
    ELSE IF cache[cluster.JWKSURI].present
            /\ now - cache[cluster.JWKSURI].fetchedAt <= JWKSFreshness
         THEN [fetch |-> FALSE, jwks |-> cache[cluster.JWKSURI].jwks]
         ELSE [fetch |-> TRUE, jwks |-> NoJWKS]

\* getJWKS as it would be if the inline keys of the cluster were not looked
\* at and every key set came through the remote JWKS cache.
getJWKSRemoteOnly(cluster, cache, now) ==
    IF cluster.JWKSURI \in DOMAIN cache
          /\ cache[cluster.JWKSURI].present
          /\ now - cache[cluster.JWKSURI].fetchedAt < JWKSFreshness
    THEN [fetch |-> FALSE, jwks |-> cache[cluster.JWKSURI].jwks]
    ELSE [fetch |-> TRUE, jwks |-> NoJWKS]

\* The part of getJWKS before any fetch: inline keys are returned directly,
\* a cache entry is used while time.Since(fetchedAt) < time.Hour; otherwise
\* the keys must be fetched.
getJWKS(cluster, cache, now) ==
    IF ~cluster.JWKSData.nil
    THEN [fetch |-> FALSE, jwks |-> cluster.JWKSData.Keys]
    ELSE IF cache[cluster.JWKSURI].present
            /\ now - cache[cluster.JWKSURI].fetchedAt < JWKSFreshness
         THEN [fetch |-> FALSE, jwks |-> cache[cluster.JWKSURI].jwks]
         ELSE [fetch |-> TRUE, jwks |-> NoJWKS]

\* ------------------------------------------------------------------------
\* Token cache (exchanger.go:197-292)
\* ------------------------------------------------------------------------

\* A token minted by the management cluster: a JWT for ns/name that expires
\* at exp; jti tells the mints apart.  EmptyToken is the empty string.
MgmtToken(ns, name, jti, exp) == [ns |-> ns, name |-> name, jti |-> jti, exp |-> exp]
EmptyToken == MgmtToken("", "", 0, 0)

\* cacheEntry; present = FALSE stands for "no map entry"
CacheEntry(token, expiresAt) ==
    [present |-> TRUE, token |-> token, expiresAt |-> expiresAt]
NoEntry == [present |-> FALSE, token |-> EmptyToken, expiresAt |-> 0]

\* Get as it would be with the comparison of the expiry turned around.
GetInverted(es, uid, now) ==
    IF ~es[uid].present THEN [token |-> EmptyToken, found |-> FALSE]
    ELSE IF es[uid].expiresAt > now THEN [token |-> EmptyToken, found |-> FALSE]
    ELSE [token |-> es[uid].token, found |-> TRUE]

\* Cache.Get: found only if the entry exists and not time.Now().After(expiresAt)
Get(es, uid, now) ==
    IF ~es[uid].present THEN [token |-> EmptyToken, found |-> FALSE]
    ELSE IF now > es[uid].expiresAt THEN [token |-> EmptyToken, found |-> FALSE]
    ELSE [token |-> es[uid].token, found |-> TRUE]

\* Cache.Set: insert or replace
Set(es, uid, token, expiresAt) ==
    [es EXCEPT ![uid] = CacheEntry(token, expiresAt)]

\* cleanup as it would be with the comparison of the expiry turned around.
cleanupInverted(es, now) ==
    [u \in DOMAIN es |->
        IF es[u].present /\ es[u].expiresAt > now THEN NoEntry ELSE es[u]]

\* Cache.cleanup: delete every entry with now.After(expiresAt)
cleanup(es, now) ==
    [u \in DOMAIN es |->
        IF es[u].present /\ now > es[u].expiresAt THEN NoEntry ELSE es[u]]

\* ------------------------------------------------------------------------
\* Decision engine (extauthz.go)
\* ------------------------------------------------------------------------

\* httpStatusFromGRPCCode as it would be without its PermissionDenied case.
httpStatusFromGRPCCodeSlip(code) ==
    CASE code = "OK" -> 200
      [] code = "Unauthenticated" -> 401
      [] code = "NotFound" -> 404
      [] code = "Internal" -> 500
      [] code = "Unavailable" -> 503
      [] OTHER -> 500

\* httpStatusFromGRPCCode
httpStatusFromGRPCCode(code) ==
    CASE code = "OK" -> 200
      [] code = "Unauthenticated" -> 401
      [] code = "PermissionDenied" -> 403
      [] code = "NotFound" -> 404
      [] code = "Internal" -> 500
      [] code = "Unavailable" -> 503
      [] OTHER -> 500

\* CheckResponse: kind is "Allow" (OkResponse) or "Deny" (DeniedResponse);
\* mutations is the sequence of header mutations of an OkResponse.
NoResponse ==
    [kind |-> "none", code |-> "", message |-> "", http |-> 0,
     body |-> "", mutations |-> << >>]

\* denyResponse
denyResponse(code, message) ==
    [kind |-> "Deny", code |-> code, message |-> message,
     http |-> httpStatusFromGRPCCode(code), body |-> message,
     mutations |-> << >>]

\* okResponseWithToken: one mutation, authorization = "Bearer " + token
okResponseWithToken(token) ==
    [kind |-> "Allow", code |-> "OK", message |-> "", http |-> 0, body |-> "",
     mutations |-> << [key |-> "authorization", scheme |-> "Bearer ",
                       token |-> token,
                       action |-> "OVERWRITE_IF_EXISTS_OR_ADD"] >>]

\* strings.HasPrefix
HasPrefix(s, prefix) ==
    Len(s) >= Len(prefix) /\ SubSeq(s, 1, Len(prefix)) = prefix

\* strings.TrimPrefix
TrimPrefix(s, prefix) ==
    IF HasPrefix(s, prefix) THEN SubSeq(s, Len(prefix) + 1, Len(s)) ELSE s

\* extractBearerToken as it would be if the scheme were matched in either
\* case.
extractBearerTokenAnyCase(headers) ==
    IF "authorization" \notin DOMAIN headers THEN [ok |-> FALSE, token |-> ""]
    ELSE IF HasPrefix(headers["authorization"], "bearer ")
         THEN [ok |-> TRUE, token |-> TrimPrefix(headers["authorization"], "bearer ")]
    ELSE IF ~HasPrefix(headers["authorization"], "Bearer ")
         THEN [ok |-> FALSE, token |-> ""]
    ELSE IF TrimPrefix(headers["authorization"], "Bearer ") = ""
         THEN [ok |-> FALSE, token |-> ""]
    ELSE [ok |-> TRUE, token |-> TrimPrefix(headers["authorization"], "Bearer ")]

\* extractBearerToken: headers is the header map of the request (a function
\* from header names to values; the empty map also stands for nil).
extractBearerToken(headers) ==
    IF DOMAIN headers = {} THEN [ok |-> FALSE, token |-> ""]
    ELSE IF "authorization" \notin DOMAIN headers THEN [ok |-> FALSE, token |-> ""]
    ELSE IF ~HasPrefix(headers["authorization"], "Bearer ")
         THEN [ok |-> FALSE, token |-> ""]
    ELSE IF TrimPrefix(headers["authorization"], "Bearer ") = ""
         THEN [ok |-> FALSE, token |-> ""]
    ELSE [ok |-> TRUE, token |-> TrimPrefix(headers["authorization"], "Bearer ")]

\* ------------------------------------------------------------------------
\* TokenReview validator (validator.go)
\* ------------------------------------------------------------------------

\* strings.Index from position i on: the position of the first sep in s at
\* or after i, 0 if there is none
RECURSIVE IndexFrom(_, _, _)
IndexFrom(s, sep, i) ==
    IF i > Len(s) THEN 0
    ELSE IF SubSeq(s, i, i) = sep THEN i
    ELSE IndexFrom(s, sep, i + 1)

\* parseServiceAccountIdentity: the username must be
\* "system:serviceaccount:<namespace>:<name>" with neither part empty
\* (SplitN(remainder, ":", 2) gives two parts exactly when remainder has a
\* colon, cut at the first one); the uid is taken as it is.
parseServiceAccountIdentity(username, uid) ==
    LET prefix == "system:serviceaccount:"
        remainder == TrimPrefix(username, prefix)
        i == IndexFrom(remainder, ":", 1)
        namespace == SubSeq(remainder, 1, i - 1)
        name == SubSeq(remainder, i + 1, Len(remainder))
    IN  IF ~HasPrefix(username, prefix)
        THEN VErr("username \"" \o username \o "\" is not a service account")
        ELSE IF i = 0
        THEN VErr("invalid service account username format: \"" \o username \o "\"")
        ELSE IF namespace = "" \/ name = ""
        THEN VErr("namespace or name is empty in username: \"" \o username \o "\"")
        ELSE VOk(Identity(namespace, name, uid, username))

\* (result, err) of TokenReviews().Create: err is the error of the call ("" for
\* nil), the other fields are result.Status
TokenReview(err, authenticated, error, username, uid) ==
    [err |-> err, Authenticated |-> authenticated, Error |-> error,
     Username |-> username, UID |-> uid]

\* Validator.Validate from the return of TokenReviews().Create on
\* (validator.go:58-77)
ValidateReviewed(review) ==
    LET id == parseServiceAccountIdentity(review.Username, review.UID)
    IN  IF review.err # ""
        THEN VErr("failed to create token review: " \o review.err)
        ELSE IF ~review.Authenticated
        THEN IF review.Error # ""
             THEN VErr("token validation failed: " \o review.Error)
             ELSE VErr("token is not authenticated")
        ELSE IF ~id.ok
        THEN VErr("failed to parse service account identity: " \o id.err)
        ELSE id

\* ------------------------------------------------------------------------
\* Inputs
\* ------------------------------------------------------------------------

\* Service accounts of the workload clusters.  A uid names one service
\* account (Kubernetes never reuses a uid for another namespace/name).
WorkloadAccounts ==
    { Identity("default", "default", "uid-a",
               "system:serviceaccount:default:default"),
      Identity("app-prod", "eso-sa", "uid-b",
               "system:serviceaccount:app-prod:eso-sa") }

UIDs == { a.UID : a \in WorkloadAccounts }

\* namespace/name pairs that can exist in the management cluster
Accounts == { <<a.Namespace, a.Name>> : a \in WorkloadAccounts }

\* default/default exists in every management cluster; the operator creates
\* and deletes the others.
Provisioned == Accounts \ { <<"default", "default">> }

LastInstant == CHOOSE t \in Instants : \A u \in Instants : u <= t

\* A token as the API server of cluster c1 (inline keys) signs it for
\* account a, and one as cluster c2 (fetched keys) signs it.
GoodToken1(a, exp) ==
    JWT("RS256", "https://k8s.example/c1", "k1", "key1", {exp}, {}, {},
        Str(a.Namespace), Str(a.Name), Str(a.UID))
GoodToken2(a, exp) ==
    JWT("RS256", "https://k8s.example/c2", "k3", "key3", {exp}, {}, {},
        Str(a.Namespace), Str(a.Name), Str(a.UID))

AccountA == CHOOSE a \in WorkloadAccounts : a.UID = "uid-a"

\* The tokens workloads present to Check: well-formed tokens of both
\* clusters, and tokens that differ from a well-formed one in one part.
Tokens ==
    { GoodToken1(a, LastInstant) : a \in WorkloadAccounts }
    \cup { GoodToken2(a, LastInstant) : a \in WorkloadAccounts }
    \cup { GoodToken1(AccountA, 0),
           [GoodToken1(AccountA, LastInstant) EXCEPT !.key = "other"],
           [GoodToken1(AccountA, LastInstant) EXCEPT !.alg = "HS256"],
           [GoodToken1(AccountA, LastInstant) EXCEPT !.iss = "https://unknown.example"],
           [GoodToken1(AccountA, LastInstant) EXCEPT !.uid = Missing] }

NoJWT == JWT("", "", "", "", {}, {}, {}, Missing, Missing, Missing)

\* A check request: its header map and the JWT that the string "tok"
\* in a header value is the serialisation of.
Request(headers, tok) == [headers |-> headers, tok |-> tok]

NoHeaders == [n \in {} |-> ""]
Header(name, value) == [n \in {name} |-> value]

NoRequest == Request(NoHeaders, NoJWT)

Requests ==
    { Request(Header("authorization", "Bearer tok"), t) : t \in Tokens }
    \cup { Request(h, GoodToken1(AccountA, LastInstant)) :
             h \in { NoHeaders,
                     Header("Authorization", "Bearer tok"),
                     Header("authorization", "Bearer "),
                     Header("authorization", "Bearer  tok"),
                     Header("authorization", "bearer tok"),
                     Header("authorization", "Basic tok"),
                     Header("authorization", "tok") } }

\* What a successful fetch of a JWKS URI returns
RemoteJWKS == << JWK("k3", "key3") >>

\* A key set the JWKS URI served earlier, before the cluster changed its key
OldJWKS == << JWK("k3", "oldkey3") >>

\* What v.client.Do(req) gives for the GET of a JWKS URI: a transport error
\* (err, "" for none; the expiry or cancellation of the context is one), or
\* a response with a status code and a body; the body is "jwks" if it can be
\* read and is the JSON of the key set jwks.
HTTPResponse(err, status, body, jwks) ==
    [err |-> err, status |-> status, body |-> body, jwks |-> jwks]

\* the errors of a call that ended because its context did
ContextErrors == {"context deadline exceeded", "context canceled"}

HTTPResponses ==
    { HTTPResponse(e, 0, "", NoJWKS) : e \in ContextErrors \cup {"connection refused"} }
    \cup { HTTPResponse("", 200, "jwks", RemoteJWKS),
           HTTPResponse("", 204, "jwks", RemoteJWKS),
           HTTPResponse("", 500, "jwks", RemoteJWKS),
           HTTPResponse("", 200, "unreadable", NoJWKS),
           HTTPResponse("", 200, "malformed", NoJWKS) }

\* fetchJWKS, given what the HTTP client returns
fetchJWKS(resp) ==
    IF resp.err # ""
    THEN [ok |-> FALSE, jwks |-> NoJWKS, err |-> "failed to fetch JWKS: " \o resp.err]
    ELSE IF resp.status # 200
    THEN [ok |-> FALSE, jwks |-> NoJWKS,
          err |-> "failed to fetch JWKS: HTTP " \o ToString(resp.status)]
    ELSE IF resp.body = "unreadable"
    THEN [ok |-> FALSE, jwks |-> NoJWKS, err |-> "failed to read response body"]
    ELSE IF resp.body # "jwks"
    THEN [ok |-> FALSE, jwks |-> NoJWKS, err |-> "failed to parse JWKS"]
    ELSE [ok |-> TRUE, jwks |-> resp.jwks, err |-> ""]

\* what fetchJWKS can return
FetchOutcomes == { fetchJWKS(r) : r \in HTTPResponses }

\* What a call of the management cluster API can end with, apart from the
\* answer of the API server ("ok"): an error of the call itself.
RPCErrors == ContextErrors \cup {"connection refused"}
RPCOutcomes == {"ok"} \cup RPCErrors

\* The workload API server knows a credential as one of its own if it is a
\* token that one of the clusters signed with its key and that has not
\* expired at instant t.
Authentic(cred, tok, t) ==
    /\ cred = "tok"
    /\ tok.alg = "RS256"
    /\ << tok.iss, tok.kid, tok.key >> \in
           { << "https://k8s.example/c1", "k1", "key1" >>,
             << "https://k8s.example/c2", "k3", "key3" >> }
    /\ \A e \in tok.exp : t <= e

\* The user the workload API server reports for an authentic token: the
\* service account of its claims, or a node for a token that is not a
\* service account token.
ReviewedUser(tok) ==
    LET id == extractServiceAccountIdentity(tok)
    IN  IF id.ok
        THEN TokenReview("", TRUE, "", id.identity.Username, id.identity.UID)
        ELSE TokenReview("", TRUE, "", "system:node:my-node", "")

\* What TokenReviews().Create can return for a credential at instant t: an
\* error of the call itself, a status that is not authenticated (with or
\* without an error text), or, for an authentic token, its user.
TokenReviews(cred, tok, t) ==
    { TokenReview(e, FALSE, "", "", "") : e \in RPCErrors }
    \cup { TokenReview("", FALSE, e, "", "") : e \in {"", "invalid bearer token"} }
    \cup (IF Authentic(cred, tok, t) THEN { ReviewedUser(tok) } ELSE {})

\* ------------------------------------------------------------------------
\* State
\* ------------------------------------------------------------------------

\* The tasks that run checks; Sequential are those that the specification
\* of the pipeline starts (one check at a time).
Tasks == {"p1", "p2"}
Sequential == {"p1"}

\* The callers of Cache.Stop (they can call it at the same time);
\* SequentialStop are those of the specification of the whole cache (one
\* call of Stop at a time).
StopCallers == {"s1", "s2"}
SequentialStop == {"s1"}

VARIABLES
    now,         \* the clock (time.Now)
    entries,     \* Cache.entries: uid -> cacheEntry
    lastSet,     \* history: uid -> arguments of the latest Cache.Set
    swept,       \* history: the instant the latest cleanup started at, as
                 \* long as the cache and the clock are as it left them
    stopCh,      \* Cache.stopCh is closed
    sweeper,     \* the background goroutine of Cache.start: "running"/"exited"
    stopOnce,    \* Cache.stopOnce has run its function (sync.Once done flag)
    stopPc,      \* per caller of Cache.Stop: "idle", or "doSlow" once it has
                 \* read the done flag as unset
    panicked,    \* a close of the closed stopCh has panicked
    restopped,   \* history: a call of Stop that found stopOnce done returned
    got,         \* what the latest Cache.Get of a direct caller returned
    config,      \* the clusters configuration file, as parsed
    loaded,      \* what LoadClustersConfig returned for it
    lookup,      \* what the latest FindByIssuer on it returned
    vin,         \* a call of Validate: its arguments
    vout,        \* a call of Validate: where it waits (pc "fetch"), or what
                 \* it returned
    jwksCache,   \* JWKSValidator.cache: uri -> cachedJWKS
    mgmt,        \* service accounts that exist in the management cluster
    mints,       \* number of tokens the management cluster has minted
    pc,          \* per check: "idle", "review", "fetch", "getSA", "createToken",
                 \* "done"
    request,     \* per check: the request being checked
    identity,    \* per check: the identity the validator returned
    result,      \* per check: the CheckResponse, once pc = "done"
    calls,       \* history per check: what the check has done so far
    meta,        \* a call of ExchangeWithMetadata: what it returned
    tokenMu,     \* Cache.mu: who holds it exclusively (w) and shared (r)
    jwksMu,      \* JWKSValidator.mu: likewise
    raced,       \* a map was written while another goroutine was using it
    lpc,         \* per goroutine: the statement it is at, lock by lock
    lv,          \* per goroutine: the local variables of getJWKS and Exchange
    fetches,     \* history: the key sets that fetchJWKS has returned
    exchanger,   \* the Exchanger: its config, and (history) the
                 \* ExchangeConfig NewExchanger was given
    validator    \* Server.validator: "jwks" for a JWKSValidator, "review"
                 \* for a Validator (TokenReview)

vars == << now, entries, lastSet, swept, stopCh, sweeper, stopOnce, stopPc,
           panicked, restopped, got, config, loaded, lookup, vin, vout,
           jwksCache,
           mgmt, mints, pc, request, identity, result, calls,
           meta, tokenMu, jwksMu, raced, lpc, lv, fetches, exchanger,
           validator >>

cacheVars == << entries, lastSet, swept >>
stopVars == << stopCh, sweeper, stopOnce, stopPc, panicked, restopped >>
validateVars == << vin, vout >>
registryVars == << config, loaded, lookup >>
callVars == << validateVars, registryVars, exchanger, validator >>
apiVars == << stopVars, got, callVars >>
mgmtVars == << mgmt, mints >>
procVars == << pc, request, identity, result, calls >>
lockVars == << tokenMu, jwksMu, raced, lpc, lv, fetches >>
extVars == << meta, lockVars >>

\* verr is the error the validator returned ("" if none or not called)
\* cred is the credential handed to the validator, xerr the error the
\* exchanger returned ("" if none or not called)
\* ExchangeConfig: Audiences is a sequence of strings (empty if not given),
\* ExpirationSeconds the set of the pointed-to value (empty for nil)
ExchangeConfig(audiences, expirationSeconds) ==
    [Audiences |-> audiences, ExpirationSeconds |-> expirationSeconds]

\* The arguments of ServiceAccounts(ns).CreateToken(name, tokenRequest)
TokenRequest(ns, name, cfg) ==
    [Namespace |-> ns, Name |-> name, Audiences |-> cfg.Audiences,
     ExpirationSeconds |-> cfg.ExpirationSeconds]
NoTokenRequest == TokenRequest("", "", ExchangeConfig(<< >>, {}))

\* treq is the TokenRequest the check has sent to CreateToken
NoCalls ==
    [cred |-> "", validated |-> FALSE, verr |-> "", fetch |-> 0, jwksWrite |-> 0,
     exchange |-> 0, getSA |-> 0, createToken |-> 0, cacheSet |-> 0, xerr |-> "",
     treq |-> NoTokenRequest]

NoSweep == [valid |-> FALSE, at |-> 0]

\* The configuration file: file is "ok" if it was read and parsed as YAML,
\* "unreadable" or "malformed" otherwise; Clusters is ClustersConfig.Clusters.
ConfigFile(file, clusters) == [file |-> file, Clusters |-> clusters]

\* (config, err) of LoadClustersConfig: err is "" for nil
Loaded(err) == [done |-> TRUE, err |-> err]
NotLoaded == [done |-> FALSE, err |-> ""]

NoLookup == [valid |-> FALSE, issuer |-> "", found |-> FALSE, cluster |-> NoCluster]

NoGot == [valid |-> FALSE, uid |-> "", token |-> EmptyToken, found |-> FALSE]

NoValidateIn == [cred |-> "", tok |-> NoJWT]
NoValidateOut == [done |-> FALSE, res |-> VErr(""), fetched |-> FALSE, pc |-> "idle"]

\* (*TokenMetadata, error) of ExchangeWithMetadata: err is "" for nil; hit
\* tells whether the token came out of the cache
\* pc and id belong to the call while it runs: where it waits ("getSA",
\* "createToken") and the identity it was given
TokenMetadata(token, ns, name, expirationTime, uid, hit) ==
    [done |-> TRUE, err |-> "", hit |-> hit, Token |-> token, Namespace |-> ns,
     ServiceAccount |-> name, ExpirationTime |-> expirationTime,
     ServiceAccountUID |-> uid, pc |-> "idle", id |-> NoIdentity]
MetadataError(err) ==
    [done |-> TRUE, err |-> err, hit |-> FALSE, Token |-> EmptyToken,
     Namespace |-> "", ServiceAccount |-> "", ExpirationTime |-> 0,
     ServiceAccountUID |-> "", pc |-> "idle", id |-> NoIdentity]
NoMeta == [MetadataError("") EXCEPT !.done = FALSE]

\* The goroutines that use the two caches: the checks, and the goroutine of
\* Cache.start
Sweeper == "gc"
Goroutines == Tasks \cup {Sweeper}

\* A sync.RWMutex: the goroutines that hold it for writing and for reading
Unlocked == [w |-> {}, r |-> {}]

\* the local variables of a check inside getJWKS and Exchange: the entry read
\* from the JWKS cache, what the fetch returned, what getJWKS returned (from:
\* "cache", "fetch", "err" or "" while it has not returned), whether
\* Cache.Get found a token, and the token with its expiration
NoLocals ==
    [cached |-> NoCachedJWKS, fetched |-> NoJWKS, from |-> "",
     jwks |-> NoJWKS, found |-> FALSE, result |-> EmptyToken, expiresAt |-> 0]

\* ExchangeConfig.ExpirationSeconds as NewExchanger sets it when the
\* configuration has none
ExpirationSeconds == 3600

\* The config of the Exchanger NewExchanger makes of the given config
\* (exchanger.go:35-46): audiences and expiration that are not given get
\* their defaults.
NewExchangerConfig(given) ==
    ExchangeConfig(IF Len(given.Audiences) = 0
                   THEN << "https://kubernetes.default.svc" >>
                   ELSE given.Audiences,
                   IF given.ExpirationSeconds = {}
                   THEN {ExpirationSeconds}
                   ELSE given.ExpirationSeconds)

\* the Exchanger made of the given config
Exchanger(given) == [given |-> given, config |-> NewExchangerConfig(given)]

InitExt ==
    /\ exchanger = Exchanger(ExchangeConfig(<< >>, {}))
    /\ validator = "jwks"
    /\ meta = NoMeta
    /\ tokenMu = Unlocked
    /\ jwksMu = Unlocked
    /\ raced = FALSE
    /\ lpc = [g \in Goroutines |-> "idle"]
    /\ lv = [p \in Tasks |-> NoLocals]
    /\ fetches = {}

Init ==
    /\ now = 0
    /\ entries = [u \in UIDs |-> NoEntry]
    /\ lastSet = [u \in UIDs |-> NoEntry]
    /\ swept = NoSweep
    /\ stopCh = FALSE
    /\ sweeper = "running"
    /\ stopOnce = FALSE
    /\ stopPc = [c \in StopCallers |-> "idle"]
    /\ panicked = FALSE
    /\ restopped = FALSE
    /\ got = NoGot
    /\ config = ConfigFile("ok", Clusters)
    /\ loaded = Loaded("")
    /\ lookup = NoLookup
    /\ vin = NoValidateIn
    /\ vout = NoValidateOut
    /\ jwksCache = [u \in URIs |-> NoCachedJWKS]
    /\ mgmt = { <<"default", "default">> }
    /\ mints = 0
    /\ pc = [p \in Tasks |-> "idle"]
    /\ request = [p \in Tasks |-> NoRequest]
    /\ identity = [p \in Tasks |-> NoIdentity]
    /\ result = [p \in Tasks |-> NoResponse]
    /\ calls = [p \in Tasks |-> NoCalls]
    /\ InitExt

\* ------------------------------------------------------------------------
\* Server.Check, cut at its suspension points
\* ------------------------------------------------------------------------

\* the check of p returns response r
Return(p, req, id, r, c) ==
    /\ pc' = [pc EXCEPT ![p] = "done"]
    /\ request' = [request EXCEPT ![p] = req]
    /\ identity' = [identity EXCEPT ![p] = id]
    /\ result' = [result EXCEPT ![p] = r]
    /\ calls' = [calls EXCEPT ![p] = c]

\* the check of p suspends at label
Suspend(p, label, req, id, c) ==
    /\ pc' = [pc EXCEPT ![p] = label]
    /\ request' = [request EXCEPT ![p] = req]
    /\ identity' = [identity EXCEPT ![p] = id]
    /\ calls' = [calls EXCEPT ![p] = c]
    /\ UNCHANGED result

\* Exchanger.Exchange up to the first RPC (exchanger.go:64-73): a cache hit
\* returns the cached token, a miss goes on to GetServiceAccount.
ExchangeBegin(p, req, id, c) ==
    LET g == Get(entries, id.UID, now)
        c1 == [c EXCEPT !.exchange = @ + 1]
    IN  IF g.found
        THEN Return(p, req, id, okResponseWithToken(g.token), c1)
        ELSE Suspend(p, "getSA", req, id, c1)

\* CheckWithKeys as it would be if Check went on to the exchanger without
\* looking at the error of Validate.
CheckWithKeysUngated(p, req, jwks, c) ==
    LET v == ValidateWithKeys(req.tok, jwks, now)
        id == extractServiceAccountIdentity(req.tok)
    IN  IF ~id.ok
        THEN Return(p, req, NoIdentity,
                    denyResponse("Unauthenticated", "Token validation failed"),
                    [c EXCEPT !.verr = id.err])
        ELSE ExchangeBegin(p, req, id.identity, [c EXCEPT !.validated = v.ok])

\* Check from the moment the validator has its keys (jwks.go:76-95,
\* extauthz.go:54-68)
CheckWithKeys(p, req, jwks, c) ==
    LET v == ValidateWithKeys(req.tok, jwks, now)
    IN  IF ~v.ok
        THEN Return(p, req, NoIdentity,
                    denyResponse("Unauthenticated", "Token validation failed"),
                    [c EXCEPT !.verr = v.err])
        ELSE ExchangeBegin(p, req, v.identity, [c EXCEPT !.validated = TRUE])

\* Check from its start to its first suspension point (extauthz.go:37-59):
\* with the TokenReview validator that is the call of the workload API
\* server (validator.go:50-58), with the JWKS validator the fetch of a key
\* set that is not at hand (jwks.go:43-113).
CheckBegin(p, req) ==
    LET b == extractBearerToken(req.headers)
        i == ValidateIssuer(b.token, req.tok)
        k == getJWKS(FindByIssuer(Clusters, req.tok.iss).cluster, jwksCache, now)
        c == [NoCalls EXCEPT !.cred = b.token]
    IN  IF ~b.ok
        THEN Return(p, req, NoIdentity,
                    denyResponse("Unauthenticated",
                                 "Missing or invalid Authorization header"),
                    NoCalls)
        ELSE IF validator = "review"
        THEN Suspend(p, "review", req, NoIdentity, c)
        ELSE IF ~i.ok
        THEN Return(p, req, NoIdentity,
                    denyResponse("Unauthenticated", "Token validation failed"),
                    [c EXCEPT !.verr = i.err])
        ELSE IF k.fetch
        THEN Suspend(p, "fetch", req, NoIdentity, c)
        ELSE CheckWithKeys(p, req, k.jwks, c)

\* A check request arrives.
Start(p) ==
    /\ pc[p] = "idle"
    /\ \E req \in Requests : CheckBegin(p, req)
    /\ UNCHANGED << extVars, now, cacheVars, apiVars, jwksCache, mgmtVars >>

\* TokenReviews().Create returns to Validator.Validate (validator.go:58-77,
\* extauthz.go:54-68): the check is denied unless the credential was
\* authenticated as a service account, and goes on to the exchanger with the
\* identity of that account otherwise.
TokenReviewReturn(p) ==
    /\ pc[p] = "review"
    /\ \E r \in TokenReviews(calls[p].cred, request[p].tok, now) :
         LET v == ValidateReviewed(r)
         IN  IF ~v.ok
             THEN Return(p, request[p], NoIdentity,
                         denyResponse("Unauthenticated", "Token validation failed"),
                         [calls[p] EXCEPT !.verr = v.err])
             ELSE ExchangeBegin(p, request[p], v.identity,
                                [calls[p] EXCEPT !.validated = TRUE])
    /\ UNCHANGED << extVars, now, cacheVars, apiVars, jwksCache, mgmtVars >>

\* fetchJWKS returns the key set: the cache entry is replaced and the check
\* goes on (jwks.go:116-129).
FetchOK(p) ==
    /\ pc[p] = "fetch"
    /\ LET uri == FindByIssuer(Clusters, request[p].tok.iss).cluster.JWKSURI
           c == [calls[p] EXCEPT !.fetch = @ + 1, !.jwksWrite = @ + 1]
       IN  /\ jwksCache' = [jwksCache EXCEPT ![uri] = CachedJWKS(RemoteJWKS, now)]
           /\ CheckWithKeys(p, request[p], RemoteJWKS, c)
    /\ UNCHANGED << extVars, now, cacheVars, apiVars, mgmtVars >>

\* FetchFail as it would be if a failed fetch were tried again.
FetchFailRetry(p) ==
    /\ pc[p] = "fetch"
    /\ \E f \in FetchOutcomes :
         /\ ~f.ok
         /\ Suspend(p, "fetch", request[p], NoIdentity,
                    [calls[p] EXCEPT !.fetch = @ + 1,
                                     !.verr = "failed to get JWKS: " \o f.err])
    /\ UNCHANGED << extVars, now, cacheVars, apiVars, jwksCache, mgmtVars >>

\* fetchJWKS fails (transport error, status other than 200, unreadable or
\* unparsable body, deadline): Validate fails (jwks.go:117-119).
FetchFail(p) ==
    /\ pc[p] = "fetch"
    /\ \E f \in FetchOutcomes :
         /\ ~f.ok
         /\ Return(p, request[p], NoIdentity,
                   denyResponse("Unauthenticated", "Token validation failed"),
                   [calls[p] EXCEPT !.fetch = @ + 1,
                                    !.verr = "failed to get JWKS: " \o f.err])
    /\ UNCHANGED << extVars, now, cacheVars, apiVars, jwksCache, mgmtVars >>

\* The error Exchange returns when ServiceAccounts(ns).Get failed with err
GetSAError(id, err) ==
    "service account " \o id.Namespace \o "/" \o id.Name
        \o " not found in management cluster: " \o err

\* GetSAReturn as it would be if Exchange went on to CreateToken whatever
\* ServiceAccounts(ns).Get returned.
GetSAReturnUnchecked(p, outcome) ==
    /\ pc[p] = "getSA"
    /\ Suspend(p, "createToken", request[p], identity[p],
               [calls[p] EXCEPT !.getSA = @ + 1])
    /\ UNCHANGED << extVars, now, cacheVars, apiVars, jwksCache, mgmtVars >>

\* ServiceAccounts(ns).Get returns (exchanger.go:73-77): the account if the
\* call went through (outcome "ok") and the account exists, the NotFound
\* error of the API server if it does not, the error of the call otherwise.
GetSAReturn(p, outcome) ==
    /\ pc[p] = "getSA"
    /\ LET c == [calls[p] EXCEPT !.getSA = @ + 1]
           id == identity[p]
           err == IF outcome = "ok" THEN "not found" ELSE outcome
       IN  IF outcome = "ok" /\ <<id.Namespace, id.Name>> \in mgmt
           THEN Suspend(p, "createToken", request[p], id, c)
           ELSE Return(p, request[p], id,
                       denyResponse("PermissionDenied", "Token exchange failed"),
                       [c EXCEPT !.xerr = GetSAError(id, err)])
    /\ UNCHANGED << extVars, now, cacheVars, apiVars, jwksCache, mgmtVars >>

\* TokenRequestFor as it would be if Exchange asked for a token of a fixed
\* account.
TokenRequestForDefault(id) == << "default", "default" >>

\* The (namespace, name) Exchange passes to CreateToken (exchanger.go:88-93)
TokenRequestFor(id) == << id.Namespace, id.Name >>

\* ExchangeFinish as it would be if the token were cached before it is
\* looked at.
ExchangeFinishCacheFirst(p, token, expiresAt, c) ==
    /\ entries' = Set(entries, identity[p].UID, token, expiresAt)
    /\ lastSet' = [lastSet EXCEPT ![identity[p].UID] = CacheEntry(token, expiresAt)]
    /\ swept' = NoSweep
    /\ IF token = EmptyToken
       THEN Return(p, request[p], identity[p],
                   denyResponse("PermissionDenied", "Token exchange failed"),
                   [c EXCEPT !.cacheSet = @ + 1,
                             !.xerr = "received empty token from TokenRequest API"])
       ELSE Return(p, request[p], identity[p], okResponseWithToken(token),
                   [c EXCEPT !.cacheSet = @ + 1])

\* Exchange after CreateToken returned token with expiration expiresAt
\* (exchanger.go:99-112)
ExchangeFinish(p, token, expiresAt, c) ==
    IF token = EmptyToken
    THEN /\ Return(p, request[p], identity[p],
                   denyResponse("PermissionDenied", "Token exchange failed"),
                   [c EXCEPT !.xerr = "received empty token from TokenRequest API"])
         /\ UNCHANGED cacheVars
    ELSE /\ entries' = Set(entries, identity[p].UID, token, expiresAt)
         /\ lastSet' = [lastSet EXCEPT ![identity[p].UID] = CacheEntry(token, expiresAt)]
         /\ swept' = NoSweep
         /\ Return(p, request[p], identity[p], okResponseWithToken(token),
                   [c EXCEPT !.cacheSet = @ + 1])

\* The check of p has called CreateToken (exchanger.go:79-93): the request
\* carries the audiences and the expiration of the exchanger's config.
CreateTokenCalled(p) ==
    [calls[p] EXCEPT !.createToken = @ + 1,
                     !.treq = TokenRequest(TokenRequestFor(identity[p])[1],
                                           TokenRequestFor(identity[p])[2],
                                           exchanger.config)]

\* CreateToken returns a token the management cluster minted for the
\* requested account, with an expiration in the future.
CreateTokenOK(p) ==
    /\ pc[p] = "createToken"
    /\ mints < MaxMints
    /\ TokenRequestFor(identity[p]) \in mgmt
    /\ \E e \in { t \in Instants : t > now } :
         LET sa == TokenRequestFor(identity[p])
             token == MgmtToken(sa[1], sa[2], mints + 1, e)
         IN  /\ mints' = mints + 1
             /\ ExchangeFinish(p, token, e, CreateTokenCalled(p))
    /\ UNCHANGED << extVars, now, apiVars, jwksCache, mgmt >>

\* CreateToken returns a response with an empty token.
CreateTokenEmpty(p) ==
    /\ pc[p] = "createToken"
    /\ ExchangeFinish(p, EmptyToken, 0, CreateTokenCalled(p))
    /\ UNCHANGED << extVars, now, apiVars, jwksCache, mgmtVars >>

\* The error Exchange returns when CreateToken failed with err
CreateTokenError(id, err) ==
    "failed to create token for service account " \o id.Namespace \o "/"
        \o id.Name \o ": " \o err

\* CreateTokenFail as it would be if Exchange stored what CreateToken
\* returned before it looked at the error.
CreateTokenFailStoring(p) ==
    /\ pc[p] = "createToken"
    /\ entries' = Set(entries, identity[p].UID, EmptyToken, now)
    /\ lastSet' = [lastSet EXCEPT ![identity[p].UID] = CacheEntry(EmptyToken, now)]
    /\ swept' = NoSweep
    /\ \E err \in RPCErrors \cup {"not found"} :
         Return(p, request[p], identity[p],
                denyResponse("PermissionDenied", "Token exchange failed"),
                [CreateTokenCalled(p) EXCEPT
                     !.xerr = CreateTokenError(identity[p], err)])
    /\ UNCHANGED << extVars, now, apiVars, jwksCache, mgmtVars >>

\* CreateToken fails (exchanger.go:94-97): an error of the call itself, or
\* the NotFound error of the API server for an account that was deleted.
CreateTokenFail(p) ==
    /\ pc[p] = "createToken"
    /\ \E err \in RPCErrors \cup {"not found"} :
         Return(p, request[p], identity[p],
                denyResponse("PermissionDenied", "Token exchange failed"),
                [CreateTokenCalled(p) EXCEPT
                     !.xerr = CreateTokenError(identity[p], err)])
    /\ UNCHANGED << extVars, now, cacheVars, apiVars, jwksCache, mgmtVars >>

\* The response has been delivered; the task ends.
Finish(p) ==
    /\ pc[p] = "done"
    /\ pc' = [pc EXCEPT ![p] = "idle"]
    /\ request' = [request EXCEPT ![p] = NoRequest]
    /\ identity' = [identity EXCEPT ![p] = NoIdentity]
    /\ result' = [result EXCEPT ![p] = NoResponse]
    /\ calls' = [calls EXCEPT ![p] = NoCalls]
    /\ UNCHANGED << extVars, now, cacheVars, apiVars, jwksCache, mgmtVars >>

\* ------------------------------------------------------------------------
\* Environment: clock, sweeper, management cluster
\* ------------------------------------------------------------------------

Tick ==
    /\ \E t \in Instants : t > now /\ now' = t
    /\ got' = NoGot
    /\ swept' = NoSweep
    /\ UNCHANGED << extVars, entries, lastSet, stopVars, callVars, jwksCache, mgmtVars,
                    procVars >>

\* Sweep as it would be if cleanup removed every entry.
SweepEverything ==
    /\ sweeper = "running"
    /\ entries' = [u \in DOMAIN entries |-> NoEntry]
    /\ swept' = [valid |-> TRUE, at |-> now]
    /\ got' = NoGot
    /\ UNCHANGED << extVars, now, lastSet, stopVars, callVars, jwksCache, mgmtVars,
                    procVars >>

\* The ticker of Cache.start fires and the goroutine runs cleanup.
Sweep ==
    /\ sweeper = "running"
    /\ entries' = cleanup(entries, now)
    /\ swept' = [valid |-> TRUE, at |-> now]
    /\ got' = NoGot
    /\ UNCHANGED << extVars, now, lastSet, stopVars, callVars, jwksCache, mgmtVars,
                    procVars >>

\* An operator creates or deletes a service account in the management
\* cluster.
CreateSA(sa) ==
    /\ sa \notin mgmt
    /\ mgmt' = mgmt \cup {sa}
    /\ UNCHANGED << extVars, now, cacheVars, apiVars, jwksCache, mints, procVars >>

DeleteSA(sa) ==
    /\ sa \in mgmt
    /\ mgmt' = mgmt \ {sa}
    /\ UNCHANGED << extVars, now, cacheVars, apiVars, jwksCache, mints, procVars >>

\* The process is started with a validator of the given kind
\* (commands/authz.go:69-128, extauthz.go:28-34): NewJWKSValidator, whose
\* cache is empty, with a clusters configuration, NewValidator without one.
NewServer(kind) ==
    /\ \A p \in Tasks : pc[p] = "idle"
    /\ meta = NoMeta
    /\ validator' = kind
    /\ jwksCache' = [u \in URIs |-> NoCachedJWKS]
    /\ UNCHANGED << extVars, now, cacheVars, stopVars, got, validateVars,
                    registryVars, exchanger, mgmtVars, procVars >>

\* The pipeline: checks arrive one after the other, while the clock, the
\* sweeper and the management cluster move.  (Nothing in the program calls
\* Cache.Stop on the exchanger's cache.)
Next ==
    \/ \E kind \in {"jwks", "review"} : NewServer(kind)
    \/ \E p \in Sequential : Start(p)
    \/ \E p \in Sequential : TokenReviewReturn(p)
    \/ \E p \in Sequential : FetchOK(p)
    \/ \E p \in Sequential : FetchFail(p)
    \/ \E p \in Sequential : \E o \in RPCOutcomes : GetSAReturn(p, o)
    \/ \E p \in Sequential : CreateTokenOK(p)
    \/ \E p \in Sequential : CreateTokenEmpty(p)
    \/ \E p \in Sequential : CreateTokenFail(p)
    \/ \E p \in Sequential : Finish(p)
    \/ Tick
    \/ Sweep
    \/ \E sa \in Provisioned : CreateSA(sa)
    \/ \E sa \in Provisioned : DeleteSA(sa)

Spec == Init /\ [][Next]_vars

\* ------------------------------------------------------------------------
\* The pipeline with an exchanger of any configuration
\* ------------------------------------------------------------------------

\* the configurations NewExchanger is given, apart from the one without
\* audiences and expiration that the exchanger starts with: one with
\* audiences only, one with an expiration only
ExchangeConfigs ==
    { ExchangeConfig(<< "vault" >>, {}), ExchangeConfig(<< >>, {600}) }

\* NewExchanger (exchanger.go:35-52), called while no check is running: the
\* exchanger gets the given config with its defaults, and an empty cache.
NewExchanger(given) ==
    /\ \A p \in Tasks : pc[p] = "idle"
    /\ meta = NoMeta
    /\ exchanger' = Exchanger(given)
    /\ entries' = [u \in UIDs |-> NoEntry]
    /\ lastSet' = [u \in UIDs |-> NoEntry]
    /\ swept' = NoSweep
    /\ UNCHANGED << extVars, now, stopVars, got, validateVars, registryVars,
                    validator, jwksCache, mgmtVars, procVars >>

NextExchanger ==
    \/ Next
    \/ \E given \in ExchangeConfigs : NewExchanger(given)

SpecExchanger == Init /\ [][NextExchanger]_vars

\* ------------------------------------------------------------------------
\* The token cache on its own: Set, Get and Stop called by any caller
\* (cache_test.go), with the sweeper and the clock
\* ------------------------------------------------------------------------

\* tokens a direct caller stores
CallerTokens ==
    { MgmtToken("default", "default", j, LastInstant) : j \in 1..MaxMints }

\* Cache.Set(uid, token, expiresAt)
CacheSet(uid, token, expiresAt) ==
    /\ entries' = Set(entries, uid, token, expiresAt)
    /\ lastSet' = [lastSet EXCEPT ![uid] = CacheEntry(token, expiresAt)]
    /\ swept' = NoSweep
    /\ got' = NoGot
    /\ UNCHANGED << extVars, now, stopVars, callVars, jwksCache, mgmtVars, procVars >>

\* Cache.Get(uid)
CacheGet(uid) ==
    /\ got' = [valid |-> TRUE, uid |-> uid,
               token |-> Get(entries, uid, now).token,
               found |-> Get(entries, uid, now).found]
    /\ UNCHANGED << extVars, now, cacheVars, stopVars, callVars, jwksCache, mgmtVars,
                    procVars >>

\* close(ch) on a channel that is closed or not: the channel is closed
\* afterwards, and closing a closed channel panics.
Close(closed) == [closed |-> TRUE, panic |-> closed]

\* Cache.Stop, the fast path of stopOnce.Do: a caller that reads the done
\* flag as set returns at once; one that reads it as unset goes on to doSlow.
Stop(c) ==
    /\ stopPc[c] = "idle"
    /\ IF stopOnce
       THEN /\ restopped' = TRUE
            /\ UNCHANGED stopPc
       ELSE /\ stopPc' = [stopPc EXCEPT ![c] = "doSlow"]
            /\ UNCHANGED restopped
    /\ UNCHANGED << extVars, now, cacheVars, stopCh, sweeper, stopOnce, panicked, got,
                    callVars, jwksCache, mgmtVars, procVars >>

\* StopSlow as it would be if Stop closed stopCh without a sync.Once.
StopSlowWithoutOnce(c) ==
    /\ stopPc[c] = "doSlow"
    /\ stopCh' = Close(stopCh).closed
    /\ panicked' = (panicked \/ Close(stopCh).panic)
    /\ stopPc' = [stopPc EXCEPT ![c] = "idle"]
    /\ UNCHANGED << extVars, now, cacheVars, sweeper, stopOnce, restopped, got,
                    callVars, jwksCache, mgmtVars, procVars >>

\* Cache.Stop, doSlow of stopOnce.Do: under the mutex of the Once the done
\* flag is read again; if it is unset, close(c.stopCh) runs and the flag is
\* set; then the call returns.
StopSlow(c) ==
    /\ stopPc[c] = "doSlow"
    /\ IF ~stopOnce
       THEN /\ stopCh' = Close(stopCh).closed
            /\ panicked' = (panicked \/ Close(stopCh).panic)
            /\ stopOnce' = TRUE
            /\ UNCHANGED restopped
       ELSE /\ restopped' = TRUE
            /\ UNCHANGED << stopCh, panicked, stopOnce >>
    /\ stopPc' = [stopPc EXCEPT ![c] = "idle"]
    /\ UNCHANGED << extVars, now, cacheVars, sweeper, got, callVars, jwksCache,
                    mgmtVars, procVars >>

\* SweeperExit as it would be if the goroutine did not look at stopCh.
SweeperIgnoresStop ==
    /\ sweeper = "running"
    /\ stopCh
    /\ UNCHANGED vars

\* The goroutine of Cache.start receives from the closed stopCh and returns.
SweeperExit ==
    /\ sweeper = "running"
    /\ stopCh
    /\ sweeper' = "exited"
    /\ UNCHANGED << extVars, now, cacheVars, stopCh, stopOnce, stopPc, panicked,
                    restopped, got, callVars, jwksCache, mgmtVars, procVars >>

NextCache ==
    \/ \E u \in UIDs : \E t \in CallerTokens : \E e \in Instants : CacheSet(u, t, e)
    \/ \E u \in UIDs : CacheGet(u)
    \/ Tick
    \/ Sweep
    \/ \E c \in SequentialStop : Stop(c)
    \/ \E c \in SequentialStop : StopSlow(c)
    \/ SweeperExit

SpecCache == Init /\ [][NextCache]_vars

\* ------------------------------------------------------------------------
\* The life cycle of the cache: concurrent calls of Stop and the sweeper
\* goroutine, next to Set and Get of one caller (cache_test.go,
\* TestCache_Stop)
\* ------------------------------------------------------------------------

\* the token and the uid TestCache_Stop stores
StopToken == MgmtToken("default", "default", 1, LastInstant)
StopUID == "uid-a"

NextStop ==
    \/ \E e \in Instants : CacheSet(StopUID, StopToken, e)
    \/ CacheGet(StopUID)
    \/ Tick
    \/ Sweep
    \/ \E c \in StopCallers : Stop(c)
    \/ \E c \in StopCallers : StopSlow(c)
    \/ SweeperExit

SpecStop == Init /\ [][NextStop]_vars

\* The scheduler runs a goroutine that can run: a call of Stop inside
\* stopOnce.Do goes on, and the select of the sweeper goroutine takes the
\* closed stopCh.
FairStop ==
    /\ \A c \in StopCallers : WF_vars(StopSlow(c))
    /\ WF_vars(SweeperExit)

SpecStopFair == SpecStop /\ FairStop

\* ------------------------------------------------------------------------
\* JWKSValidator.Validate on its own, applied to one token at one instant
\* ------------------------------------------------------------------------

\* what the JWKS cache can hold for a URI at instant t: nothing, or a key set
\* fetched at one of the first instants
CachedBefore(t) ==
    { NoCachedJWKS }
    \cup { CachedJWKS(ks, at) : ks \in {RemoteJWKS, OldJWKS},
                                at \in { a \in 0..Slack : a <= t } }

\* ValidateFetched as it would be if a failed fetch evicted the cache entry
\* of the URI.
ValidateFetchedEvictOnFailure(tok, cache, t, f) ==
    LET cl == FindByIssuer(Clusters, tok.iss).cluster
    IN  IF ~f.ok
        THEN [res |-> VErr("failed to get JWKS: " \o f.err),
              cache |-> [cache EXCEPT ![cl.JWKSURI] = NoCachedJWKS]]
        ELSE [res |-> ValidateWithKeys(tok, f.jwks, t),
              cache |-> [cache EXCEPT ![cl.JWKSURI] = CachedJWKS(f.jwks, t)]]

\* JWKSValidator.Validate from the return of fetchJWKS on (jwks.go:116-129,
\* 76-95): f is what the fetch returned, t the instant of its return, cache
\* the JWKS cache as it is by then.  A failed fetch fails the validation; the
\* key set of a successful one is stored and used.
ValidateFetched(tok, cache, t, f) ==
    LET cl == FindByIssuer(Clusters, tok.iss).cluster
    IN  IF ~f.ok
        THEN [res |-> VErr("failed to get JWKS: " \o f.err), cache |-> cache]
        ELSE [res |-> ValidateWithKeys(tok, f.jwks, t),
              cache |-> [cache EXCEPT ![cl.JWKSURI] = CachedJWKS(f.jwks, t)]]

OptionalInstants == { {} } \cup { {t} : t \in Instants }

\* the tokens Validate is applied to
ValidateTokens ==
    { JWT(alg, iss, k[1], k[2], exp, nbf, iat, c[1], c[2], c[3]) :
        alg \in {"RS256", "HS256"},
        iss \in {"https://k8s.example/c1", "https://k8s.example/c2",
                 "https://unknown.example"},
        k \in { <<"k1", "key1">>, <<"k2", "key2">>, <<"k1", "other">>,
                <<"k3", "key3">>, <<"", "key1">> },
        exp \in OptionalInstants,
        nbf \in { {}, {0}, {DefaultLeeway + 1}, {LastInstant} },
        iat \in { {}, {LastInstant} },
        c \in { << Str("default"), Str("default"), Str("uid-a") >>,
                << Missing, Str("default"), Str("uid-a") >>,
                << Str("default"), NotAString, Str("uid-a") >>,
                << Str("default"), Str("default"), Missing >>,
                << Str(""), Str("default"), Str("uid-a") >> } }

InitValidate ==
    /\ now \in Instants
    /\ vin \in { [cred |-> "tok", tok |-> t] : t \in ValidateTokens }
               \cup { [cred |-> "not.a.valid.jwt", tok |-> NoJWT] }
    /\ vout = NoValidateOut
    /\ jwksCache \in { [u \in URIs |-> c] : c \in CachedBefore(now) }
    /\ entries = [u \in UIDs |-> NoEntry]
    /\ lastSet = [u \in UIDs |-> NoEntry]
    /\ swept = NoSweep
    /\ stopCh = FALSE
    /\ sweeper = "running"
    /\ stopOnce = FALSE
    /\ stopPc = [c \in StopCallers |-> "idle"]
    /\ panicked = FALSE
    /\ restopped = FALSE
    /\ got = NoGot
    /\ config = ConfigFile("ok", Clusters)
    /\ loaded = Loaded("")
    /\ lookup = NoLookup
    /\ mgmt = { <<"default", "default">> }
    /\ mints = 0
    /\ pc = [p \in Tasks |-> "idle"]
    /\ request = [p \in Tasks |-> NoRequest]
    /\ identity = [p \in Tasks |-> NoIdentity]
    /\ result = [p \in Tasks |-> NoResponse]
    /\ calls = [p \in Tasks |-> NoCalls]
    /\ InitExt

\* the http.Client of the validator gives up after ten seconds (jwks.go:36)
FetchTimeout == 10

\* what a call of Validate has returned
Validated(res, fetched) ==
    [done |-> TRUE, res |-> res, fetched |-> fetched, pc |-> "idle"]

\* JWKSValidator.Validate up to the point where it has its keys or must
\* fetch them (jwks.go:43-113): a token that cannot be parsed or whose issuer
\* is unknown is rejected, inline or cached keys are used at once, otherwise
\* the call goes on to fetchJWKS with the lock released.
ValidateCall ==
    /\ ~vout.done /\ vout.pc = "idle"
    /\ LET i == ValidateIssuer(vin.cred, vin.tok)
           k == getJWKS(FindByIssuer(Clusters, vin.tok.iss).cluster, jwksCache, now)
       IN  vout' = IF ~i.ok THEN Validated(i, FALSE)
                   ELSE IF ~k.fetch
                   THEN Validated(ValidateWithKeys(vin.tok, k.jwks, now), FALSE)
                   ELSE [NoValidateOut EXCEPT !.pc = "fetch"]
    /\ UNCHANGED << extVars, now, cacheVars, stopVars, got, registryVars, exchanger, validator, vin,
                    jwksCache, mgmtVars, procVars >>

\* fetchJWKS returns to Validate (jwks.go:116-129, 76-95)
ValidateFetchReturn ==
    /\ vout.pc = "fetch"
    /\ \E f \in FetchOutcomes :
         LET r == ValidateFetched(vin.tok, jwksCache, now, f)
         IN  /\ vout' = Validated(r.res, TRUE)
             /\ jwksCache' = r.cache
    /\ UNCHANGED << extVars, now, cacheVars, stopVars, got, registryVars, exchanger, validator, vin,
                    mgmtVars, procVars >>

\* While Validate waits for its fetch, time passes, for as long as the HTTP
\* client waits at most.
ValidateWait ==
    /\ vout.pc = "fetch"
    /\ Tick
    /\ now' - now <= FetchTimeout

\* While Validate waits for its fetch, another call of Validate for the same
\* cluster stores the key set it has fetched (jwks.go:122-127).
ValidateOverlap ==
    /\ vout.pc = "fetch"
    /\ \E ks \in {RemoteJWKS, OldJWKS} :
         jwksCache' =
             [jwksCache EXCEPT
                ![FindByIssuer(Clusters, vin.tok.iss).cluster.JWKSURI] =
                    CachedJWKS(ks, now)]
    /\ UNCHANGED << extVars, now, cacheVars, stopVars, got, registryVars, exchanger, validator,
                    validateVars, mgmtVars, procVars >>

NextValidate ==
    \/ ValidateCall
    \/ ValidateFetchReturn
    \/ ValidateWait
    \/ ValidateOverlap

SpecValidate == InitValidate /\ [][NextValidate]_vars

\* ------------------------------------------------------------------------
\* ExchangeWithMetadata on its own, with the clock, the sweeper and the
\* management cluster
\* ------------------------------------------------------------------------

\* the UID the management cluster has given to its service account sa
MgmtUID(sa) == "mgmt-uid-" \o sa[1] \o "-" \o sa[2]

\* ExchangeWithMetadata(ctx, identity) up to its first RPC
\* (exchanger.go:126-144).  On a hit the expiration is computed from the
\* clock and the configured lifetime, and the UID is that of the identity; a
\* miss goes on to ServiceAccounts(ns).Get.
ExchangeWithMetadata(id) ==
    /\ ~meta.done /\ meta.pc = "idle"
    /\ LET g == Get(entries, id.UID, now)
       IN  IF g.found
           THEN meta' = TokenMetadata(g.token, id.Namespace, id.Name,
                                      now + (CHOOSE s \in exchanger.config.ExpirationSeconds : TRUE),
                                      id.UID, TRUE)
           ELSE meta' = [NoMeta EXCEPT !.pc = "getSA", !.id = id]
    /\ UNCHANGED << now, cacheVars, apiVars, jwksCache, mgmtVars, procVars, lockVars >>

\* ServiceAccounts(ns).Get returns to ExchangeWithMetadata (exchanger.go:144-148)
MetadataGetSAReturn(outcome) ==
    /\ meta.pc = "getSA"
    /\ LET id == meta.id
           err == IF outcome = "ok" THEN "not found" ELSE outcome
       IN  IF outcome = "ok" /\ << id.Namespace, id.Name >> \in mgmt
           THEN meta' = [meta EXCEPT !.pc = "createToken"]
           ELSE meta' = MetadataError(GetSAError(id, err))
    /\ UNCHANGED << now, cacheVars, apiVars, jwksCache, mgmtVars, procVars, lockVars >>

\* CreateToken returns to ExchangeWithMetadata (exchanger.go:159-187): an
\* error, an empty token, or a token that is stored and returned with what
\* the management cluster said of it.
MetadataCreateTokenReturn ==
    /\ meta.pc = "createToken"
    /\ LET id == meta.id
           sa == << id.Namespace, id.Name >>
       IN  \/ /\ \E err \in RPCErrors \cup {"not found"} :
                   meta' = MetadataError(CreateTokenError(id, err))
              /\ UNCHANGED << cacheVars, mgmtVars >>
           \/ /\ meta' = MetadataError("received empty token from TokenRequest API")
              /\ UNCHANGED << cacheVars, mgmtVars >>
           \/ /\ sa \in mgmt
              /\ mints < MaxMints
              /\ \E e \in { t \in Instants : t > now } :
                   LET token == MgmtToken(sa[1], sa[2], mints + 1, e)
                   IN  /\ entries' = Set(entries, id.UID, token, e)
                       /\ lastSet' = [lastSet EXCEPT ![id.UID] = CacheEntry(token, e)]
                       /\ meta' = TokenMetadata(token, id.Namespace, id.Name,
                                                e, MgmtUID(sa), FALSE)
              /\ swept' = NoSweep
              /\ mints' = mints + 1
              /\ UNCHANGED mgmt
    /\ UNCHANGED << now, apiVars, jwksCache, procVars, lockVars >>

\* The caller has taken the result.
MetadataReturn ==
    /\ meta.done
    /\ meta' = NoMeta
    /\ UNCHANGED << now, cacheVars, apiVars, jwksCache, mgmtVars, procVars,
                    lockVars >>

NextMetadata ==
    \/ \E given \in ExchangeConfigs : NewExchanger(given)
    \/ \E id \in WorkloadAccounts : ExchangeWithMetadata(id)
    \/ \E o \in RPCOutcomes : MetadataGetSAReturn(o)
    \/ MetadataCreateTokenReturn
    \/ MetadataReturn
    \/ Tick
    \/ Sweep
    \/ \E sa \in Provisioned : CreateSA(sa) \/ DeleteSA(sa)

SpecMetadata == Init /\ [][NextMetadata]_vars

\* ------------------------------------------------------------------------
\* The two caches lock by lock: concurrent checks of one workload of the
\* cluster with remote keys, each going through getJWKS and Exchange one
\* statement at a time, and the goroutine of Cache.start
\* ------------------------------------------------------------------------

\* sync.RWMutex: Lock waits until nobody holds the mutex, RLock until nobody
\* holds it for writing.  (RLock also waits while a Lock call is waiting;
\* leaving that out allows more interleavings, not fewer.)
CanLockIgnoringReaders(m) == m.w = {}

CanLock(m) == m.w = {} /\ m.r = {}
CanRLock(m) == m.w = {}
Holders(m) == m.w \cup m.r

\* g reads, or writes, a Go map while another goroutine is inside a section
\* that writes it, or uses it: a data race
ReadRace(m, g) == m.w \ {g} # {}
WriteRace(m, g) == Holders(m) \ {g} # {}

\* the cluster and the workload of the concurrent checks
RemoteCluster == FindByIssuer(Clusters, "https://k8s.example/c2").cluster
Workload == AccountA

\* what fetchJWKS can return while the cluster is changing its key
RotatingFetchOutcomes ==
    FetchOutcomes \cup { fetchJWKS(HTTPResponse("", 200, "jwks", OldJWKS)) }

Goto(g, label) == lpc' = [lpc EXCEPT ![g] = label]

\* jwks.go:106  v.mu.RLock()
JRLock(p) ==
    /\ lpc[p] = "idle"
    /\ CanRLock(jwksMu)
    /\ jwksMu' = [jwksMu EXCEPT !.r = @ \cup {p}]
    /\ Goto(p, "jRead")
    /\ UNCHANGED << now, cacheVars, apiVars, jwksCache, mgmtVars, procVars,
                    meta, tokenMu, raced, lv, fetches >>

\* jwks.go:107  cached, ok := v.cache[cluster.JWKSURI]
JRead(p) ==
    /\ lpc[p] = "jRead"
    /\ \E c \in {jwksCache[RemoteCluster.JWKSURI]}
                 \cup (IF ReadRace(jwksMu, p) THEN {NoCachedJWKS} ELSE {}) :
         lv' = [lv EXCEPT ![p].cached = c]
    /\ raced' = (raced \/ ReadRace(jwksMu, p))
    /\ Goto(p, "jRUnlock")
    /\ UNCHANGED << now, cacheVars, apiVars, jwksCache, mgmtVars, procVars,
                    meta, tokenMu, jwksMu, fetches >>

\* jwks.go:108-116  v.mu.RUnlock(); a fresh entry is returned and the check
\* goes on at `next`, otherwise the fetch begins
JRUnlock(p, next) ==
    /\ lpc[p] = "jRUnlock"
    /\ jwksMu' = [jwksMu EXCEPT !.r = @ \ {p}]
    /\ LET k == getJWKS(RemoteCluster, [u \in URIs |-> lv[p].cached], now)
       IN  IF k.fetch
           THEN /\ lv' = lv
                /\ Goto(p, "fetch")
           ELSE /\ lv' = [lv EXCEPT ![p].jwks = k.jwks, ![p].from = "cache"]
                /\ Goto(p, next)
    /\ UNCHANGED << now, cacheVars, apiVars, jwksCache, mgmtVars, procVars,
                    meta, tokenMu, raced, fetches >>

\* jwks.go:116-119  fetchJWKS returns one of outcomes
JFetchReturn(p, outcomes) ==
    /\ lpc[p] = "fetch"
    /\ \E f \in outcomes :
         IF f.ok
         THEN /\ lv' = [lv EXCEPT ![p].fetched = f.jwks]
              /\ fetches' = fetches \cup {f.jwks}
              /\ Goto(p, "jLock")
         ELSE /\ lv' = [lv EXCEPT ![p].from = "err"]
              /\ fetches' = fetches
              /\ Goto(p, "done")
    /\ UNCHANGED << now, cacheVars, apiVars, jwksCache, mgmtVars, procVars,
                    meta, tokenMu, jwksMu, raced >>

\* jwks.go:122  v.mu.Lock()
JLock(p) ==
    /\ lpc[p] = "jLock"
    /\ CanLock(jwksMu)
    /\ jwksMu' = [jwksMu EXCEPT !.w = @ \cup {p}]
    /\ Goto(p, "jWrite")
    /\ UNCHANGED << now, cacheVars, apiVars, jwksCache, mgmtVars, procVars,
                    meta, tokenMu, raced, lv, fetches >>

\* JWrite as it would be if it stored the key set read from the cache
\* instead of the one fetched.
JWriteCached(p) ==
    /\ lpc[p] = "jWrite"
    /\ jwksCache' = [jwksCache EXCEPT ![RemoteCluster.JWKSURI] =
                        CachedJWKS(lv[p].cached.jwks, now)]
    /\ raced' = (raced \/ WriteRace(jwksMu, p))
    /\ Goto(p, "jUnlock")
    /\ UNCHANGED << now, cacheVars, apiVars, mgmtVars, procVars,
                    meta, tokenMu, jwksMu, lv, fetches >>

\* jwks.go:123-126  v.cache[uri] = &cachedJWKS{jwks, time.Now()}
JWrite(p) ==
    /\ lpc[p] = "jWrite"
    /\ \E c \in {CachedJWKS(lv[p].fetched, now)}
                 \cup (IF WriteRace(jwksMu, p)
                       THEN {jwksCache[RemoteCluster.JWKSURI]} ELSE {}) :
         jwksCache' = [jwksCache EXCEPT ![RemoteCluster.JWKSURI] = c]
    /\ raced' = (raced \/ WriteRace(jwksMu, p))
    /\ Goto(p, "jUnlock")
    /\ UNCHANGED << now, cacheVars, apiVars, mgmtVars, procVars,
                    meta, tokenMu, jwksMu, lv, fetches >>

\* jwks.go:127-129  v.mu.Unlock(); return jwks, nil: the check goes on at
\* `next`
JUnlock(p, next) ==
    /\ lpc[p] = "jUnlock"
    /\ jwksMu' = [jwksMu EXCEPT !.w = @ \ {p}]
    /\ lv' = [lv EXCEPT ![p].jwks = lv[p].fetched, ![p].from = "fetch"]
    /\ Goto(p, next)
    /\ UNCHANGED << now, cacheVars, apiVars, jwksCache, mgmtVars, procVars,
                    meta, tokenMu, raced, fetches >>

\* exchanger.go:226  c.mu.RLock()
XRLock(p) ==
    /\ lpc[p] = "xRLock"
    /\ CanRLock(tokenMu)
    /\ tokenMu' = [tokenMu EXCEPT !.r = @ \cup {p}]
    /\ Goto(p, "xRead")
    /\ UNCHANGED << now, cacheVars, apiVars, jwksCache, mgmtVars, procVars,
                    meta, jwksMu, raced, lv, fetches >>

\* exchanger.go:229-239  the body of Cache.Get
XRead(p) ==
    /\ lpc[p] = "xRead"
    /\ \E g \in {Get(entries, Workload.UID, now)}
                 \cup (IF ReadRace(tokenMu, p)
                       THEN {[token |-> EmptyToken, found |-> FALSE]} ELSE {}) :
         lv' = [lv EXCEPT ![p].found = g.found, ![p].result = g.token]
    /\ raced' = (raced \/ ReadRace(tokenMu, p))
    /\ Goto(p, "xRUnlock")
    /\ UNCHANGED << now, cacheVars, apiVars, jwksCache, mgmtVars, procVars,
                    meta, tokenMu, jwksMu, fetches >>

\* exchanger.go:227  the deferred c.mu.RUnlock(); then exchanger.go:66-73:
\* a hit is returned, a miss goes on to ServiceAccounts(ns).Get
XRUnlock(p) ==
    /\ lpc[p] = "xRUnlock"
    /\ tokenMu' = [tokenMu EXCEPT !.r = @ \ {p}]
    /\ IF lv[p].found THEN Goto(p, "done") ELSE Goto(p, "getSA")
    /\ UNCHANGED << now, cacheVars, apiVars, jwksCache, mgmtVars, procVars,
                    meta, jwksMu, raced, lv, fetches >>

\* exchanger.go:73-77  ServiceAccounts(ns).Get returns
XGetSAReturn(p) ==
    /\ lpc[p] = "getSA"
    /\ \E o \in RPCOutcomes :
         IF o = "ok" /\ << Workload.Namespace, Workload.Name >> \in mgmt
         THEN Goto(p, "createToken")
         ELSE Goto(p, "done")
    /\ UNCHANGED << now, cacheVars, apiVars, jwksCache, mgmtVars, procVars,
                    meta, tokenMu, jwksMu, raced, lv, fetches >>

\* The instants of the clock of these checks: a key set fetched at 0 is
\* fresh at 1 and stale from JWKSFreshness on.
Epochs == {0, 1, JWKSFreshness, JWKSFreshness + 1}

\* the instant that follows t on this clock
NextInstant(t) ==
    CHOOSE u \in Epochs : u > t /\ \A w \in Epochs : w > t => u <= w

\* exchanger.go:88-103  CreateToken returns: an error, or a token; the
\* management cluster of these checks lets a token expire at the next instant
XCreateTokenReturn(p) ==
    /\ lpc[p] = "createToken"
    /\ \/ /\ Goto(p, "done")
          /\ UNCHANGED << lv, mints >>
       \/ /\ mints < MaxMints
          /\ \E t \in Epochs : t > now
          /\ lv' = [lv EXCEPT
                      ![p].result = MgmtToken(Workload.Namespace, Workload.Name,
                                              mints + 1, NextInstant(now)),
                      ![p].expiresAt = NextInstant(now)]
          /\ mints' = mints + 1
          /\ Goto(p, "xLock")
    /\ UNCHANGED << now, cacheVars, apiVars, jwksCache, mgmt, procVars,
                    meta, tokenMu, jwksMu, raced, fetches >>

\* exchanger.go:245  c.mu.Lock()
XLock(p) ==
    /\ lpc[p] = "xLock"
    /\ CanLock(tokenMu)
    /\ tokenMu' = [tokenMu EXCEPT !.w = @ \cup {p}]
    /\ Goto(p, "xWrite")
    /\ UNCHANGED << now, cacheVars, apiVars, jwksCache, mgmtVars, procVars,
                    meta, jwksMu, raced, lv, fetches >>

\* XWrite as it would be if Set kept the entry a uid already has.
XWriteIfAbsent(p) ==
    /\ lpc[p] = "xWrite"
    /\ entries' = IF entries[Workload.UID].present THEN entries
                  ELSE Set(entries, Workload.UID, lv[p].result, lv[p].expiresAt)
    /\ lastSet' = [lastSet EXCEPT ![Workload.UID] =
                      CacheEntry(lv[p].result, lv[p].expiresAt)]
    /\ swept' = NoSweep
    /\ raced' = (raced \/ WriteRace(tokenMu, p))
    /\ Goto(p, "xUnlock")
    /\ UNCHANGED << now, apiVars, jwksCache, mgmtVars, procVars,
                    meta, tokenMu, jwksMu, lv, fetches >>

\* exchanger.go:248-251  c.entries[uid] = cacheEntry{token, expiresAt}
XWrite(p) ==
    /\ lpc[p] = "xWrite"
    /\ \E es \in {Set(entries, Workload.UID, lv[p].result, lv[p].expiresAt)}
                  \cup (IF WriteRace(tokenMu, p) THEN {entries} ELSE {}) :
         entries' = es
    /\ lastSet' = [lastSet EXCEPT ![Workload.UID] =
                      CacheEntry(lv[p].result, lv[p].expiresAt)]
    /\ swept' = NoSweep
    /\ raced' = (raced \/ WriteRace(tokenMu, p))
    /\ Goto(p, "xUnlock")
    /\ UNCHANGED << now, apiVars, jwksCache, mgmtVars, procVars,
                    meta, tokenMu, jwksMu, lv, fetches >>

\* exchanger.go:246  the deferred c.mu.Unlock(); Exchange returns the token
XUnlock(p) ==
    /\ lpc[p] = "xUnlock"
    /\ tokenMu' = [tokenMu EXCEPT !.w = @ \ {p}]
    /\ Goto(p, "done")
    /\ UNCHANGED << now, cacheVars, apiVars, jwksCache, mgmtVars, procVars,
                    meta, jwksMu, raced, lv, fetches >>

\* The check has returned; the goroutine is free for the next one.
LReturn(p) ==
    /\ lpc[p] = "done"
    /\ lv' = [lv EXCEPT ![p] = NoLocals]
    /\ Goto(p, "idle")
    /\ UNCHANGED << now, cacheVars, apiVars, jwksCache, mgmtVars, procVars,
                    meta, tokenMu, jwksMu, raced, fetches >>

\* exchanger.go:283  the ticker has fired: c.mu.Lock() of cleanup
GcLock ==
    /\ lpc[Sweeper] = "idle"
    /\ sweeper = "running"
    /\ CanLock(tokenMu)
    /\ tokenMu' = [tokenMu EXCEPT !.w = @ \cup {Sweeper}]
    /\ Goto(Sweeper, "gcSweep")
    /\ UNCHANGED << now, cacheVars, apiVars, jwksCache, mgmtVars, procVars,
                    meta, jwksMu, raced, lv, fetches >>

\* exchanger.go:286-291  the loop of cleanup
GcSweep ==
    /\ lpc[Sweeper] = "gcSweep"
    /\ \E es \in {cleanup(entries, now)}
                  \cup (IF WriteRace(tokenMu, Sweeper) THEN {entries} ELSE {}) :
         entries' = es
    /\ swept' = [valid |-> TRUE, at |-> now]
    /\ raced' = (raced \/ WriteRace(tokenMu, Sweeper))
    /\ Goto(Sweeper, "gcUnlock")
    /\ UNCHANGED << now, lastSet, apiVars, jwksCache, mgmtVars, procVars,
                    meta, tokenMu, jwksMu, lv, fetches >>

\* exchanger.go:284  the deferred c.mu.Unlock() of cleanup
GcUnlock ==
    /\ lpc[Sweeper] = "gcUnlock"
    /\ tokenMu' = [tokenMu EXCEPT !.w = @ \ {Sweeper}]
    /\ Goto(Sweeper, "idle")
    /\ UNCHANGED << now, cacheVars, apiVars, jwksCache, mgmtVars, procVars,
                    meta, jwksMu, raced, lv, fetches >>

\* The clock of these checks advances.
Elapse ==
    /\ \E t \in Epochs : t > now /\ now' = t
    /\ swept' = NoSweep
    /\ UNCHANGED << entries, lastSet, apiVars, jwksCache, mgmtVars, procVars,
                    extVars >>

\* Checks that end when getJWKS has returned, with a cluster that is
\* changing its key
NextJWKS ==
    \/ \E p \in Tasks :
         \/ JRLock(p) \/ JRead(p) \/ JRUnlock(p, "done")
         \/ JFetchReturn(p, RotatingFetchOutcomes)
         \/ JLock(p) \/ JWrite(p) \/ JUnlock(p, "done")
         \/ LReturn(p)
    \/ Tick

SpecJWKS == Init /\ [][NextJWKS]_vars

\* Checks that go through getJWKS and Exchange, and the sweeper
NextLocks ==
    \/ \E p \in Tasks :
         \/ JRLock(p) \/ JRead(p) \/ JRUnlock(p, "xRLock")
         \/ JFetchReturn(p, FetchOutcomes)
         \/ JLock(p) \/ JWrite(p) \/ JUnlock(p, "xRLock")
         \/ XRLock(p) \/ XRead(p) \/ XRUnlock(p) \/ XGetSAReturn(p)
         \/ XCreateTokenReturn(p) \/ XLock(p) \/ XWrite(p) \/ XUnlock(p)
         \/ LReturn(p)
    \/ GcLock
    \/ GcSweep
    \/ GcUnlock
    \/ Elapse

SpecLocks == Init /\ [][NextLocks]_vars

\* ------------------------------------------------------------------------
\* The cluster registry on its own: LoadClustersConfig applied to one
\* configuration file, and FindByIssuer on what it holds
\* ------------------------------------------------------------------------

\* how many entries a configuration file has at most
MaxClusters == 2

RegistryNames == {"", "c1", "c2"}
RegistryIssuers == {"", "https://k8s.example/c1", "https://k8s.example/c1/"}
RegistryURIs == {"", "https://c2/jwks"}
RegistryKeySets == { NilJWKS, JWKSPtr(NoJWKS), JWKSPtr(<< JWK("k1", "key1") >>) }

RegistryEntries ==
    { ClusterConfig(n, i, u, d) :
        n \in RegistryNames, i \in RegistryIssuers, u \in RegistryURIs,
        d \in RegistryKeySets }

ConfigFiles ==
    { ConfigFile("ok", cs) :
        cs \in UNION { [1..k -> RegistryEntries] : k \in 0..MaxClusters } }
    \cup { ConfigFile(f, << >>) : f \in {"unreadable", "malformed"} }

\* the issuers FindByIssuer is asked for
LookupIssuers ==
    RegistryIssuers \cup {"https://K8S.example/c1", "https://unknown.example"}

InitRegistry ==
    /\ config \in ConfigFiles
    /\ loaded = NotLoaded
    /\ lookup = NoLookup
    /\ now = 0
    /\ entries = [u \in UIDs |-> NoEntry]
    /\ lastSet = [u \in UIDs |-> NoEntry]
    /\ swept = NoSweep
    /\ stopCh = FALSE
    /\ sweeper = "running"
    /\ stopOnce = FALSE
    /\ stopPc = [c \in StopCallers |-> "idle"]
    /\ panicked = FALSE
    /\ restopped = FALSE
    /\ got = NoGot
    /\ vin = NoValidateIn
    /\ vout = NoValidateOut
    /\ jwksCache = [u \in URIs |-> NoCachedJWKS]
    /\ mgmt = { <<"default", "default">> }
    /\ mints = 0
    /\ pc = [p \in Tasks |-> "idle"]
    /\ request = [p \in Tasks |-> NoRequest]
    /\ identity = [p \in Tasks |-> NoIdentity]
    /\ result = [p \in Tasks |-> NoResponse]
    /\ calls = [p \in Tasks |-> NoCalls]
    /\ InitExt

\* LoadClustersConfig: read the file, parse it, validate the configuration
LoadClustersConfig ==
    /\ ~loaded.done
    /\ loaded' = IF config.file = "unreadable"
                    THEN Loaded("failed to read config file")
                 ELSE IF config.file = "malformed"
                    THEN Loaded("failed to parse YAML")
                 ELSE IF ClustersConfigValidate(config.Clusters) # ""
                    THEN Loaded("invalid configuration: "
                                    \o ClustersConfigValidate(config.Clusters))
                 ELSE Loaded("")
    /\ UNCHANGED << extVars, now, cacheVars, stopVars, got, config, lookup, exchanger, validator, validateVars,
                    jwksCache, mgmtVars, procVars >>

\* FindByIssuer(issuer) on the parsed configuration
Lookup(issuer) ==
    /\ loaded.done
    /\ config.file = "ok"
    /\ lookup' = [valid |-> TRUE, issuer |-> issuer,
                  found |-> FindByIssuer(config.Clusters, issuer).found,
                  cluster |-> FindByIssuer(config.Clusters, issuer).cluster]
    /\ UNCHANGED << extVars, now, cacheVars, stopVars, got, config, loaded, exchanger, validator, validateVars,
                    jwksCache, mgmtVars, procVars >>

NextRegistry ==
    \/ LoadClustersConfig
    \/ \E i \in LookupIssuers : Lookup(i)

SpecRegistry == InitRegistry /\ [][NextRegistry]_vars

\* ------------------------------------------------------------------------
\* Properties
\* ------------------------------------------------------------------------

\* the token an Allow response puts into the authorization header
Returned(p) == result[p].mutations[1].token

\* the check of p has reached the exchanger
Exchanging(p) ==
    \/ pc[p] \in {"getSA", "createToken"}
    \/ calls[p].exchange > 0
    \/ calls[p].getSA > 0
    \/ calls[p].createToken > 0
    \/ calls[p].cacheSet > 0

\* C1: Identity preservation.  Whenever a check returns a token for a
\* validated identity with namespace N and name S, on a cache miss or on a
\* cache hit, that token is one the management cluster minted for N and S.
C1_IdentityPreservation ==
    \A p \in Tasks :
        pc[p] = "done" /\ result[p].kind = "Allow" =>
            /\ identity[p] = extractServiceAccountIdentity(request[p].tok).identity
            /\ Returned(p).jti \in 1..mints
            /\ Returned(p).ns = identity[p].Namespace
            /\ Returned(p).name = identity[p].Name

\* a check for app-prod/eso-sa is answered from the cache
C1_Witness ==
    \E p \in Tasks :
        /\ pc[p] = "done" /\ result[p].kind = "Allow"
        /\ identity[p].Namespace = "app-prod"
        /\ calls[p].exchange = 1 /\ calls[p].getSA = 0

\* C2: Cache consistency.  Get(u) returns (token, true) only if token is the
\* value of the most recent Set(u, token, e) and e > now.
C2_CacheConsistency ==
    got.valid /\ got.found =>
        /\ lastSet[got.uid].present
        /\ got.token = lastSet[got.uid].token
        /\ lastSet[got.uid].expiresAt > now

\* C3: Get(uid) returns present = false whenever no entry exists for uid or
\* the entry's expiresAt <= now, the boundary expiresAt = now included.
C3_ExpiredNeverReturned ==
    got.valid /\ (~entries[got.uid].present \/ entries[got.uid].expiresAt <= now)
        => ~got.found

\* C4: Round trip.  Set(u, t, e) followed by Get(u), with no Set for u in
\* between and while now < e, returns (t, true), whatever Sets for other
\* uids, sweeps or calls of Stop have happened.
C4_RoundTrip ==
    got.valid /\ lastSet[got.uid].present /\ now < lastSet[got.uid].expiresAt =>
        got.found /\ got.token = lastSet[got.uid].token

\* Get finds an entry after a sweep-capable run in which Stop was called and
\* the other uid was set as well
C4_Witness ==
    /\ got.valid /\ got.found /\ stopCh
    /\ \A u \in UIDs : lastSet[u].present
    /\ \E u \in UIDs : ~entries[u].present

\* C5: Cache hit.  Once an Exchange for uid u has cached a token with expiry
\* e, a later Exchange for u that starts before e returns that token, makes
\* no call to the management cluster and leaves the cache alone; one that
\* starts after e goes to the management cluster, and the token it mints is a
\* new one, replaces the entry and is returned.
C5_CacheHit ==
    [][\A p \in Tasks :
         /\ calls'[p].exchange = calls[p].exchange + 1 =>
              LET u == identity'[p].UID
              IN  /\ lastSet[u].present /\ now < lastSet[u].expiresAt =>
                        /\ pc'[p] = "done"
                        /\ result'[p] = okResponseWithToken(lastSet[u].token)
                        /\ calls'[p].getSA = 0 /\ calls'[p].createToken = 0
                        /\ UNCHANGED << entries, lastSet, mints >>
                  /\ lastSet[u].present /\ now > lastSet[u].expiresAt =>
                        pc'[p] = "getSA"
         /\ calls'[p].cacheSet = calls[p].cacheSet + 1 =>
              LET u == identity[p].UID
              IN  /\ entries'[u].present
                  /\ entries'[u].token.jti = mints' /\ mints' = mints + 1
                  /\ lastSet[u].present => entries'[u].token # lastSet[u].token
                  /\ result'[p] = okResponseWithToken(entries'[u].token)
      ]_vars

\* a check for default/default is answered from the cache at a later instant
C5_Witness ==
    \E p \in Tasks :
        /\ pc[p] = "done" /\ result[p].kind = "Allow"
        /\ identity[p].UID = "uid-a"
        /\ calls[p].exchange = 1 /\ calls[p].getSA = 0 /\ calls[p].createToken = 0
        /\ now > 0 /\ mints = 1

\* C6: No leak on failure.  A check that ends in a Deny has added no entry
\* to the token cache.
C6_NoLeakOnFailure ==
    [][\A p \in Tasks :
         pc[p] # "done" /\ pc'[p] = "done" /\ result'[p].kind = "Deny" =>
             /\ entries' = entries
             /\ calls'[p].cacheSet = 0
      ]_vars

\* a check is denied after CreateToken returned (an error or an empty token)
C6_Witness ==
    \E p \in Tasks :
        /\ pc[p] = "done" /\ result[p].kind = "Deny"
        /\ calls[p].createToken = 1
        /\ \A u \in UIDs : ~entries[u].present

\* the request of p carries a parsable token of an issuer that is in no
\* registry entry
UnknownIssuer(req) ==
    /\ extractBearerToken(req.headers).ok
    /\ extractBearerToken(req.headers).token = "tok"
    /\ req.tok.alg \in AllowedAlgs
    /\ \A i \in 1..Len(Clusters) : Clusters[i].Issuer # req.tok.iss

\* C7: Trust confinement.  For a token whose iss is the issuer of no registry
\* entry, Validate fails with an unknown-issuer error, Check returns
\* Deny(Unauthenticated), and the call fetches no JWKS, writes no JWKS cache
\* entry and calls the management cluster not at all.  (The registry is that
\* of the JWKS validator; a server that runs the TokenReview validator has
\* none.)
C7_TrustConfinement ==
    [][\A p \in Tasks :
         validator = "jwks" /\ pc[p] = "idle" /\ pc'[p] # "idle"
             /\ UnknownIssuer(request'[p]) =>
             /\ pc'[p] = "done"
             /\ calls'[p].verr = "unknown issuer: " \o request'[p].tok.iss
             /\ result'[p] = denyResponse("Unauthenticated", "Token validation failed")
             /\ result'[p].http = 401
             /\ calls'[p].fetch = 0 /\ calls'[p].jwksWrite = 0
             /\ calls'[p].getSA = 0 /\ calls'[p].createToken = 0
             /\ UNCHANGED << jwksCache, entries, mints >>
      ]_vars

\* a check of a token of an unknown issuer has returned
C7_Witness ==
    \E p \in Tasks :
        /\ validator = "jwks"
        /\ pc[p] = "done"
        /\ UnknownIssuer(request[p])
        /\ result[p].kind = "Deny"

\* C8: Every Deny is of one of two families: a missing or malformed bearer
\* header and every validator failure give Unauthenticated with HTTP 401 and
\* the message "Missing or invalid Authorization header" or "Token validation
\* failed"; every exchanger failure gives PermissionDenied with HTTP 403 and
\* "Token exchange failed".  Check produces no other status.
C8_DenyFamilies ==
    \A p \in Tasks :
        pc[p] = "done" =>
            /\ result[p].kind \in {"Allow", "Deny"}
            /\ result[p].kind = "Allow" => result[p].code = "OK"
            /\ result[p].kind = "Deny" =>
                 IF ~extractBearerToken(request[p].headers).ok
                 THEN /\ result[p].code = "Unauthenticated"
                      /\ result[p].http = 401
                      /\ result[p].message = "Missing or invalid Authorization header"
                 ELSE IF ~calls[p].validated
                 THEN /\ result[p].code = "Unauthenticated"
                      /\ result[p].http = 401
                      /\ result[p].message = "Token validation failed"
                 ELSE /\ result[p].code = "PermissionDenied"
                      /\ result[p].http = 403
                      /\ result[p].message = "Token exchange failed"

\* a check is denied because the service account is not in the management
\* cluster
C8_Witness ==
    \E p \in Tasks :
        /\ pc[p] = "done" /\ result[p].code = "PermissionDenied"
        /\ calls[p].getSA = 1 /\ calls[p].createToken = 0
        /\ << identity[p].Namespace, identity[p].Name >> \notin mgmt

\* C9: Within one Check, validate-then-exchange is strict: the exchanger, and
\* with it every management-cluster call and token-cache access, is invoked
\* only after the validator returned an identity, and never when bearer
\* extraction or validation failed.
C9_ValidateThenExchange ==
    \A p \in Tasks :
        /\ Exchanging(p) =>
             /\ extractBearerToken(request[p].headers).ok
             /\ calls[p].validated
             /\ identity[p] # NoIdentity
             /\ identity[p] = extractServiceAccountIdentity(request[p].tok).identity
        /\ pc[p] = "done" /\ result[p].code = "Unauthenticated" => ~Exchanging(p)

\* a check waits for CreateToken after its token was validated with fetched
\* keys
C9_Witness ==
    \E p \in Tasks :
        /\ pc[p] = "createToken"
        /\ calls[p].validated /\ calls[p].fetch = 1

\* C10: Temporal soundness.  Validate fails for every token whose exp <= now
\* (exp = now included) and for every token whose nbf > now.
C10_TemporalSoundness ==
    vout.done /\ ((\E t \in vin.tok.exp : t <= now) \/ (\E t \in vin.tok.nbf : t > now))
        => ~vout.res.ok

\* the key set Validate used for the token of vin, seen after the call: the
\* inline keys of the cluster of its issuer, or the key set that the call
\* found fresh in, or fetched into, the JWKS cache
KeySetUsed ==
    LET cl == FindByIssuer(Clusters, vin.tok.iss).cluster
    IN  IF ~cl.JWKSData.nil THEN cl.JWKSData.Keys ELSE jwksCache[cl.JWKSURI].jwks

\* the token of vin is inside its time window, strictly, and carries the
\* three Kubernetes claims as strings
WellFormedNow(tok) ==
    /\ \A t \in tok.exp : t > now
    /\ \A t \in tok.nbf : t <= now
    /\ \A t \in tok.iat : t <= now
    /\ tok.ns.kind = "string" /\ tok.name.kind = "string" /\ tok.uid.kind = "string"

\* C11: No identity is derived from an unverified claim.  Validate returns
\* an identity only if the issuer of the token is in the registry and the key
\* that signed the token is a key of the key set of that registry entry; a
\* token signed by any other key is rejected, registered issuer or not.
C11_SignatureBeforeIdentity ==
    vout.done /\ vout.res.ok =>
        /\ FindByIssuer(Clusters, vin.tok.iss).found
        /\ \E i \in 1..Len(KeySetUsed) : KeySetUsed[i].key = vin.tok.key
        /\ vout.res.identity = extractServiceAccountIdentity(vin.tok).identity

\* Validate returned an identity for a token of the cluster whose keys were
\* fetched by this call
C11_Witness ==
    /\ vout.done /\ vout.res.ok /\ vout.fetched
    /\ vin.tok.iss = "https://k8s.example/c2" /\ vin.tok.key = "key3"

\* C12: Rotation tolerance.  The key set of cluster c1 lists key1 and key2:
\* a token of the issuer of c1 signed with key1, and one signed with key2,
\* validate successfully.
C12_RotationTolerance ==
    /\ vout.done
    /\ vin.cred = "tok" /\ vin.tok.alg \in AllowedAlgs
    /\ vin.tok.iss = "https://k8s.example/c1"
    /\ vin.tok.key \in {"key1", "key2"}
    /\ WellFormedNow(vin.tok)
    => vout.res.ok

\* C13: Sweep bounded memory.  Right after a run of cleanup, every entry that
\* remains in the cache has expiresAt strictly greater than the instant the
\* sweep started at: the sweep removes every entry with expiresAt <= now.
C13_SweepBoundedMemory ==
    swept.valid =>
        \A u \in UIDs : entries[u].present => entries[u].expiresAt > swept.at

\* C14: The sweeper is correctness-irrelevant.  Whatever Sets, Gets and
\* sweeps have happened, a Get returns what it returns in the same run with
\* the sweeps left out, that is from the cache that only Set has written.
C14_SweeperIrrelevant ==
    got.valid =>
        /\ got.found = Get(lastSet, got.uid, now).found
        /\ got.token = Get(lastSet, got.uid, now).token

\* a Get misses on an entry that a sweep has removed, while the other uid is
\* still found in the cache
C14_Witness ==
    /\ got.valid /\ ~got.found
    /\ lastSet[got.uid].present /\ ~entries[got.uid].present
    /\ \E u \in UIDs : Get(entries, u, now).found

\* a step of a call of Cache.Stop
StopStep ==
    stopPc' # stopPc \/ restopped' # restopped \/ stopCh' # stopCh
        \/ stopOnce' # stopOnce \/ panicked' # panicked

\* C15: Stop is idempotent.  No call of Stop panics, the first or a later one,
\* alone or at the same time as other calls of Stop, and every call that has
\* entered stopOnce.Do returns; a call of Stop leaves the entries of the cache
\* and a closed stopCh as they are, and a Get after Stop returns what the
\* latest Set stored, as long as it has not expired.
C15_StopIdempotent ==
    /\ [][/\ ~panicked'
          /\ StopStep => /\ UNCHANGED << entries, lastSet, now >>
                         /\ stopCh => stopCh'
                         /\ stopOnce => stopOnce' /\ stopCh'
          /\ got'.valid /\ stopCh' =>
                /\ got'.found = Get(lastSet', got'.uid, now').found
                /\ got'.token = Get(lastSet', got'.uid, now').token
         ]_vars
    /\ \A c \in StopCallers : (stopPc[c] = "doSlow") ~> (stopPc[c] = "idle")

\* after two calls of Stop, the second of which found the Once done, a Get
\* finds the entry that was stored before the first
C15_Witness ==
    /\ stopCh /\ restopped /\ ~panicked
    /\ \A c \in StopCallers : stopPc[c] = "idle"
    /\ got.valid /\ got.found /\ got.token = StopToken

\* C16: Stop halts the sweeper.  Once Stop has closed stopCh the sweeper
\* goroutine terminates, and a terminated sweeper stays terminated and begins
\* no sweep.
C16_StopHaltsSweeper ==
    /\ stopCh ~> (sweeper = "exited")
    /\ [][sweeper = "exited" =>
             /\ sweeper' = "exited"
             /\ swept'.valid => swept' = swept
         ]_vars

\* the sweeper has terminated after a sweep and a Stop, with an expired entry
\* left in the cache
C16_Witness ==
    /\ sweeper = "exited" /\ stopCh
    /\ \E u \in UIDs : entries[u].present /\ entries[u].expiresAt < now

\* the entries of the configuration file, by position
Entry(k) == config.Clusters[k]
Positions == 1..Len(config.Clusters)

\* C17: Registry construction fails when there are no entries, when an entry
\* has an empty name or an empty issuer, when two entries share a name and
\* when two entries share an issuer; so in every registry that is accepted
\* names are pairwise distinct and issuers are pairwise distinct.
C17_RegistryValidation ==
    loaded.done /\ config.file = "ok" =>
        /\ (\/ Positions = {}
            \/ \E k \in Positions : Entry(k).Name = "" \/ Entry(k).Issuer = ""
            \/ \E j, k \in Positions : j # k /\ Entry(j).Name = Entry(k).Name
            \/ \E j, k \in Positions : j # k /\ Entry(j).Issuer = Entry(k).Issuer)
           => loaded.err # ""
        /\ loaded.err = "" =>
              /\ Positions # {}
              /\ \A j, k \in Positions :
                    j # k => /\ Entry(j).Name # Entry(k).Name
                             /\ Entry(j).Issuer # Entry(k).Issuer

\* construction has failed for two entries that are both valid and differ in
\* their names, but share their issuer
C17_Witness ==
    /\ loaded.done /\ loaded.err # "" /\ Len(config.Clusters) = 2
    /\ \A k \in Positions : ClusterConfigValidate(Entry(k)) = ""
    /\ Entry(1).Name # Entry(2).Name
    /\ Entry(1).Issuer = Entry(2).Issuer

\* C18: Every registry entry has exactly one key source.  Construction fails
\* for an entry with neither inline JWKS nor JWKS URI, for an entry with an
\* inline JWKS of zero keys, and for an entry with both an inline JWKS and a
\* JWKS URI.
C18_ExactlyOneKeySource ==
    /\ loaded.done /\ config.file = "ok"
    /\ \E k \in Positions :
          \/ Entry(k).JWKSData.nil /\ Entry(k).JWKSURI = ""
          \/ ~Entry(k).JWKSData.nil /\ Len(Entry(k).JWKSData.Keys) = 0
          \/ ~Entry(k).JWKSData.nil /\ Entry(k).JWKSURI # ""
    => loaded.err # ""

\* C19: FindByIssuer is total and exact-match.  It returns an entry iff the
\* issuer of some entry equals the argument character for character, that
\* entry has this issuer, and in a registry that construction accepted it is
\* the only entry with this issuer.
C19_FindByIssuerExact ==
    lookup.valid =>
        /\ lookup.found <=> \E k \in Positions : Entry(k).Issuer = lookup.issuer
        /\ lookup.found =>
              /\ lookup.cluster.Issuer = lookup.issuer
              /\ \E k \in Positions : Entry(k) = lookup.cluster
        /\ ~lookup.found => lookup.cluster = NoCluster
        /\ lookup.found /\ loaded.err = "" =>
              \A k \in Positions :
                  Entry(k).Issuer = lookup.issuer => Entry(k) = lookup.cluster

\* in an accepted registry with two entries whose issuers differ in the
\* trailing slash only, the lookup of the second issuer returns the second
\* entry
C19_Witness ==
    /\ lookup.valid /\ lookup.found /\ loaded.err = ""
    /\ Len(config.Clusters) = 2
    /\ lookup.issuer = "https://k8s.example/c1/"
    /\ lookup.cluster = Entry(2)
    /\ Entry(1).Issuer = "https://k8s.example/c1"

\* the call of vin gets as far as getJWKS, for a cluster with a JWKS URI
AsksForRemoteKeys ==
    /\ vin.cred = "tok" /\ vin.tok.alg \in AllowedAlgs
    /\ FindByIssuer(Clusters, vin.tok.iss).found
    /\ FindByIssuer(Clusters, vin.tok.iss).cluster.JWKSData.nil

\* C20: For a cluster with a JWKS URI, getJWKS returns the cached key set
\* without a fetch iff the cache has an entry for the URI and now - fetchedAt
\* is less than one hour; with no entry, or at an age of one hour or more, it
\* fetches.
C20_JWKSFreshness ==
    [][vout = NoValidateOut /\ vout' # vout /\ AsksForRemoteKeys =>
          LET uri == FindByIssuer(Clusters, vin.tok.iss).cluster.JWKSURI
              fresh == /\ jwksCache[uri].present
                       /\ now - jwksCache[uri].fetchedAt < 3600
          IN  /\ vout'.pc = "fetch" <=> ~fresh
              /\ vout'.done <=> fresh
              /\ fresh =>
                    /\ jwksCache' = jwksCache
                    /\ vout'.res = ValidateWithKeys(vin.tok, jwksCache[uri].jwks, now)
      ]_vars

\* a token was validated without a fetch, with keys that were cached one
\* second less than an hour ago
C20_Witness ==
    /\ vout.done /\ vout.res.ok /\ ~vout.fetched /\ AsksForRemoteKeys
    /\ jwksCache["https://c2/jwks"].present
    /\ now - jwksCache["https://c2/jwks"].fetchedAt = 3599

\* the errors Validate returns when the fetch of the key set failed
FetchErrors == { "failed to get JWKS: " \o f.err : f \in { g \in FetchOutcomes : ~g.ok } }

\* C21: A failed JWKS fetch (transport error, status other than success,
\* unreadable or unparsable body) leaves the JWKS cache as it is, an earlier
\* entry of the URI keeps its key set and its fetchedAt, and the error of the
\* fetch is returned; only a successful fetch replaces the entry.
C21_FailedFetchKeepsCache ==
    [][~vout.done /\ vout'.done =>
          /\ vout'.fetched /\ vout'.res.err \in FetchErrors => jwksCache' = jwksCache
          /\ ~vout'.fetched => jwksCache' = jwksCache
          /\ jwksCache' # jwksCache =>
                /\ vout'.fetched /\ vout'.res.err \notin FetchErrors
                /\ \E u \in URIs :
                      /\ jwksCache'[u] = CachedJWKS(RemoteJWKS, now)
                      /\ \A w \in URIs \ {u} : jwksCache'[w] = jwksCache[w]
      ]_vars

\* the fetch was answered with status 500 and the stale entry is still in the
\* cache
C21_Witness ==
    /\ vout.done /\ vout.fetched
    /\ vout.res.err = "failed to get JWKS: failed to fetch JWKS: HTTP 500"
    /\ jwksCache["https://c2/jwks"] = CachedJWKS(OldJWKS, 0)
    /\ now >= 3600

\* the check of p has ended because its context expired or was cancelled
\* during the JWKS fetch, or during a call of the management cluster
FetchDeadline(p) ==
    calls[p].verr \in { "failed to get JWKS: failed to fetch JWKS: " \o e :
                          e \in ContextErrors }
RPCDeadline(p) ==
    calls[p].xerr \in { GetSAError(identity[p], e) : e \in ContextErrors }
                      \cup { CreateTokenError(identity[p], e) : e \in ContextErrors }

\* C23 as stated: if the deadline expires, or the request is cancelled, during
\* a JWKS fetch or a management-cluster call, the check returns Deny
\* (Unauthenticated for the fetch, PermissionDenied for the management call)
\* and that check has changed neither the JWKS cache nor the token cache.
C23_DeadlineNoChangeByCheck ==
    \A p \in Tasks :
        pc[p] = "done" /\ (FetchDeadline(p) \/ RPCDeadline(p)) =>
            /\ result[p].kind = "Deny"
            /\ FetchDeadline(p) => result[p].code = "Unauthenticated"
            /\ RPCDeadline(p) => result[p].code = "PermissionDenied"
            /\ calls[p].jwksWrite = 0
            /\ calls[p].cacheSet = 0

\* C23, amended: if the deadline expires, or the request is cancelled, during
\* a JWKS fetch or a management-cluster call, the check returns Deny
\* (Unauthenticated for the fetch, PermissionDenied for the management call);
\* the failed call changes neither cache, and the check has not changed the
\* token cache at all; its only change of the JWKS cache, if any, is that of
\* a fetch that succeeded earlier in the same check.
C23_DeadlineFrame ==
    [][\A p \in Tasks :
         pc[p] # "done" /\ pc'[p] = "done"
             /\ (FetchDeadline(p)' \/ RPCDeadline(p)') =>
             /\ UNCHANGED << jwksCache, entries >>
             /\ result'[p].kind = "Deny"
             /\ FetchDeadline(p)' =>
                   /\ result'[p] = denyResponse("Unauthenticated", "Token validation failed")
                   /\ calls'[p].jwksWrite = 0
             /\ RPCDeadline(p)' =>
                   result'[p] = denyResponse("PermissionDenied", "Token exchange failed")
             /\ calls'[p].cacheSet = 0
      ]_vars

\* the deadline expired during CreateToken, in a check that had fetched the
\* key set of its cluster before
C23_Witness ==
    \E p \in Tasks :
        /\ pc[p] = "done" /\ RPCDeadline(p)
        /\ calls[p].createToken = 1 /\ calls[p].jwksWrite = 1
        /\ \A u \in UIDs : ~entries[u].present

\* C24: On a cache miss, if GetServiceAccount reports that the service
\* account is not in the management cluster, Exchange fails with an error
\* that names the namespace and the name, CreateServiceAccountToken is not
\* called and no cache entry is added.
C24_ServiceAccountNotFound ==
    [][\A p \in Tasks :
         /\ pc[p] = "getSA" /\ calls'[p].getSA = calls[p].getSA + 1
         /\ << identity[p].Namespace, identity[p].Name >> \notin mgmt
         => /\ pc'[p] = "done"
            /\ result'[p].kind = "Deny"
            /\ \E e \in RPCErrors \cup {"not found"} :
                  calls'[p].xerr =
                      "service account " \o identity[p].Namespace \o "/"
                          \o identity[p].Name
                          \o " not found in management cluster: " \o e
            /\ calls'[p].createToken = 0
            /\ calls'[p].cacheSet = 0
            /\ entries' = entries
      ]_vars

\* the check of app-prod/eso-sa failed at GetServiceAccount with NotFound
C24_Witness ==
    \E p \in Tasks :
        /\ pc[p] = "done"
        /\ calls[p].xerr =
              "service account app-prod/eso-sa not found in management cluster: not found"
        /\ calls[p].getSA = 1 /\ calls[p].createToken = 0
        /\ ~entries["uid-b"].present

\* the header names of the request of p are in lower case
LowerCaseNames(p) == DOMAIN request[p].headers \subseteq {"authorization"}

\* the authorization header of the request of p has the prefix "Bearer " and
\* something after it
HasBearerCredential(p) ==
    /\ "authorization" \in DOMAIN request[p].headers
    /\ Len(request[p].headers["authorization"]) > 7
    /\ SubSeq(request[p].headers["authorization"], 1, 7) = "Bearer "

\* C26: Bearer extraction.  Check obtains a credential iff the value of the
\* authorization header starts with "Bearer " (this case, one space) and goes
\* on after it, and the credential is the value without this prefix; a missing
\* header, the value "Bearer ", a scheme in lower case or another scheme give
\* Deny(Unauthenticated), and the validator is not invoked.
C26_BearerExtraction ==
    \A p \in Tasks :
        pc[p] # "idle" /\ LowerCaseNames(p) =>
            IF HasBearerCredential(p)
            THEN calls[p].cred =
                     SubSeq(request[p].headers["authorization"], 8,
                            Len(request[p].headers["authorization"]))
            ELSE /\ pc[p] = "done"
                 /\ result[p] = denyResponse("Unauthenticated",
                                             "Missing or invalid Authorization header")
                 /\ calls[p] = NoCalls

\* a request with the scheme in lower case has been denied
C26_Witness ==
    \E p \in Tasks :
        /\ pc[p] = "done" /\ result[p].code = "Unauthenticated"
        /\ "authorization" \in DOMAIN request[p].headers
        /\ request[p].headers["authorization"] = "bearer tok"
        /\ calls[p].cred = ""

\* C27: Header-name lookup is case-insensitive.  Check takes the bearer
\* credential from the authorization header whatever the case of the letters
\* of the header name in the header map of the request.
C27_HeaderNameCaseInsensitive ==
    \A p \in Tasks :
        pc[p] # "idle" =>
            \A n \in DOMAIN request[p].headers :
                n \in {"authorization", "Authorization"}
                    /\ request[p].headers[n] = "Bearer tok"
                => calls[p].cred = "tok"

\* C29: No retry.  One Check makes at most one JWKS fetch, at most one
\* GetServiceAccount call and at most one CreateServiceAccountToken call,
\* whatever errors occur; a failure of the validation or of the exchange ends
\* the request with a Deny.
C29_NoRetry ==
    [][\A p \in Tasks :
         /\ calls'[p].fetch <= 1
         /\ calls'[p].getSA <= 1
         /\ calls'[p].createToken <= 1
         /\ calls'[p].verr # "" \/ calls'[p].xerr # "" =>
               pc'[p] = "done" /\ result'[p].kind = "Deny"
         /\ pc[p] = "done" =>
               \/ pc'[p] = "done" /\ calls'[p] = calls[p] /\ result'[p] = result[p]
               \/ pc'[p] = "idle" /\ calls'[p] = NoCalls
      ]_vars

\* a check has ended in a Deny after one fetch, one GetServiceAccount and one
\* CreateServiceAccountToken
C29_Witness ==
    \E p \in Tasks :
        /\ pc[p] = "done" /\ result[p].kind = "Deny"
        /\ calls[p].fetch = 1 /\ calls[p].getSA = 1 /\ calls[p].createToken = 1

\* C28: Every identity a validator returns has a non-empty namespace, a
\* non-empty name and a non-empty uid, and its username is
\* "system:serviceaccount:" + namespace + ":" + name; a token in which one of
\* the claims is missing or is not a string is rejected.
C28_IdentityWellFormed ==
    vout.done =>
        /\ vout.res.ok =>
              /\ vout.res.identity.Namespace # ""
              /\ vout.res.identity.Name # ""
              /\ vout.res.identity.UID # ""
              /\ vout.res.identity.Username =
                    "system:serviceaccount:" \o vout.res.identity.Namespace
                        \o ":" \o vout.res.identity.Name
        /\ (\E c \in {vin.tok.ns, vin.tok.name, vin.tok.uid} : c.kind # "string")
              => ~vout.res.ok

\* C25: ExchangeWithMetadata reports, on a cache miss and on a cache hit
\* alike, the expiration the management cluster returned when the returned
\* token was minted, that is the expiresAt stored with the token, and not a
\* value computed from the clock and the configured lifetime.
C25_AuthoritativeExpiry ==
    [][~meta.done /\ meta'.done /\ meta'.err = "" =>
          /\ meta'.ExpirationTime = meta'.Token.exp
          /\ \E u \in UIDs :
                /\ entries'[u].present
                /\ entries'[u].token = meta'.Token
                /\ entries'[u].expiresAt = meta'.ExpirationTime
      ]_vars

\* the statements of getJWKS between its first and its last use of the lock
InGetJWKS == {"jRead", "jRUnlock", "fetch", "jLock", "jWrite", "jUnlock"}

\* C22: Under any interleaving of concurrent getJWKS calls for one URI,
\* several calls may each find the entry missing or stale and each fetch, but
\* every call returns either a cached key set that is fresh or the key set it
\* fetched itself; the cache entry is always the result of a successful fetch
\* with fetchedAt <= now, and once a fetch has succeeded and all calls have
\* finished the entry is there; no interleaving corrupts it.
C22_ConcurrentGetKeys ==
    [][/\ \A p \in Tasks :
            /\ lv[p].from = "" /\ lv'[p].from = "cache" =>
                  /\ lv[p].cached.present
                  /\ lv[p].cached.jwks \in fetches
                  /\ now - lv[p].cached.fetchedAt < JWKSFreshness
                  /\ lv'[p].jwks = lv[p].cached.jwks
            /\ lv[p].from = "" /\ lv'[p].from = "fetch" =>
                  /\ lv[p].fetched \in fetches
                  /\ lv'[p].jwks = lv[p].fetched
       /\ jwksCache'[RemoteCluster.JWKSURI].present =>
            /\ jwksCache'[RemoteCluster.JWKSURI].jwks \in fetches'
            /\ jwksCache'[RemoteCluster.JWKSURI].fetchedAt <= now'
       /\ fetches' # {} /\ (\A p \in Tasks : lpc'[p] \notin InGetJWKS) =>
            jwksCache'[RemoteCluster.JWKSURI].present
       /\ ~raced'
      ]_vars

\* both checks found no entry, each fetched, the cluster changed its key in
\* between, and the entry is what the call of p2 stored
C22_Witness ==
    /\ lpc["p1"] = "done" /\ lpc["p2"] = "done"
    /\ lv["p1"].from = "fetch" /\ lv["p2"].from = "fetch"
    /\ ~lv["p1"].cached.present /\ ~lv["p2"].cached.present
    /\ lv["p1"].jwks = RemoteJWKS /\ lv["p2"].jwks = OldJWKS
    /\ jwksCache[RemoteCluster.JWKSURI].jwks = OldJWKS

\* the statements at which a fetch or a call of the management cluster is in
\* flight
InFlight == {"fetch", "getSA", "createToken"}

\* C30: Lock discipline.  No goroutine holds the lock of the token cache or
\* of the JWKS cache while a JWKS fetch or a call of the management cluster is
\* in flight; Set and the sweep hold the lock of the token cache exclusively,
\* with no other holder at the same time, and Get holds it shared; under any
\* interleaving of Get, Set and sweep no map is used by two goroutines in a
\* way that races, and the token cache holds, under each uid, nothing or what
\* the last Set of the uid stored.
C30_LockDiscipline ==
    /\ \A p \in Tasks :
          /\ lpc[p] \in InFlight => p \notin Holders(tokenMu) \cup Holders(jwksMu)
          /\ lpc[p] = "xWrite" => tokenMu = [w |-> {p}, r |-> {}]
          /\ lpc[p] = "xRead" => p \in tokenMu.r /\ tokenMu.w = {}
          /\ lpc[p] = "jWrite" => jwksMu = [w |-> {p}, r |-> {}]
          /\ lpc[p] = "jRead" => p \in jwksMu.r /\ jwksMu.w = {}
    /\ lpc[Sweeper] = "gcSweep" => tokenMu = [w |-> {Sweeper}, r |-> {}]
    /\ \A m \in {tokenMu, jwksMu} :
          m.w # {} => Cardinality(m.w) = 1 /\ m.r = {}
    /\ ~raced
    /\ \A u \in UIDs : entries[u].present => entries[u] = lastSet[u]

\* the sweeper holds the lock of the token cache while the call of one check
\* to the management cluster is in flight and the other check waits for the
\* lock in Set
C30_Witness ==
    /\ lpc[Sweeper] = "gcSweep"
    /\ lpc["p1"] = "getSA"
    /\ lpc["p2"] = "xLock"
    /\ tokenMu.w = {Sweeper}

\* C31: Every entry of the token cache has expiresAt later than the instant
\* at which it was inserted: Set never stores, and so the exchanger never
\* inserts, an entry whose expiresAt is at or before the instant of the
\* insertion, whatever expiration the management cluster returned.
C31_ExpiryAfterInsertion ==
    [][\A u \in UIDs :
         lastSet'[u] # lastSet[u] /\ entries'[u].present =>
             entries'[u].expiresAt > now
      ]_vars

\* C33: A sweep removes only entries that are expired at the time of the
\* sweep: every entry whose expiresAt is later than the now of the sweep stays
\* in the map with its token and its expiresAt, and the sweep inserts no entry
\* and modifies none.
C33_SweepRemovesOnlyExpired ==
    [][swept'.valid /\ ~got'.valid =>
          \A u \in UIDs :
              /\ entries[u].present /\ entries[u].expiresAt > now =>
                    entries'[u] = entries[u]
              /\ entries'[u].present => entries'[u] = entries[u]
              /\ entries[u].present /\ ~entries'[u].present =>
                    entries[u].expiresAt <= now
      ]_vars

\* a sweep has removed the expired entry of one uid and has left the entry of
\* the other uid, which expires later, as Set stored it
C33_Witness ==
    /\ swept.valid /\ swept.at = now
    /\ lastSet["uid-a"].present /\ lastSet["uid-a"].expiresAt < now
    /\ ~entries["uid-a"].present
    /\ entries["uid-b"].present /\ entries["uid-b"].expiresAt > now
    /\ entries["uid-b"] = lastSet["uid-b"]

\* C40: Cache.Get is read-only: it inserts, replaces and deletes no entry, so
\* an expired entry stays in the map, where Get does not see it, until a
\* sweep or a later Set for its uid; and after Stop no entry is removed any
\* more.
C40_GetReadOnly ==
    [][/\ got'.valid /\ got' # got => entries' = entries
       /\ got'.valid /\ entries[got'.uid].present
             /\ entries[got'.uid].expiresAt <= now => ~got'.found
       /\ \A u \in UIDs :
             /\ entries[u].present /\ ~entries'[u].present =>
                   swept'.valid /\ swept'.at = now /\ ~stopCh
             /\ entries'[u].present /\ entries'[u] # entries[u] =>
                   entries'[u] = lastSet'[u]
      ]_vars

\* C32: The token cache is populated only by successful mints: the jwt of
\* every entry is a non-empty token that CreateToken returned before, stored
\* with the expiration that was returned with it; a response with an empty
\* token is an error of the exchange and is not cached.
C32_PopulatedByMintsOnly ==
    /\ \A u \in UIDs :
          entries[u].present =>
              /\ entries[u].token # EmptyToken
              /\ entries[u].token.jti \in 1..mints
              /\ entries[u].expiresAt = entries[u].token.exp
              /\ entries[u] = lastSet[u]
    /\ \A p \in Tasks :
          pc[p] = "done"
              /\ calls[p].xerr = "received empty token from TokenRequest API" =>
                  /\ result[p].kind = "Deny"
                  /\ calls[p].cacheSet = 0

\* CreateToken answered a miss on an expired entry with an empty token: the
\* check is denied and the entry of the earlier mint is still the one stored
C32_Witness ==
    \E p \in Tasks :
        /\ pc[p] = "done"
        /\ calls[p].xerr = "received empty token from TokenRequest API"
        /\ entries[identity[p].UID].present
        /\ entries[identity[p].UID].token.jti = 1

\* The pipeline with the returns of Check's blocking calls: the JWKS fetch
\* returns (the client carries a timeout, jwks.go:35), and so does each call
\* to the workload and the management cluster (the context of the request
\* carries a deadline).  A check waits in one call at a time, so that one
\* condition on the return of whichever call is pending says it all.
FairCheck ==
    \A p \in Sequential :
        WF_vars(\/ TokenReviewReturn(p)
                \/ FetchOK(p) \/ FetchFail(p)
                \/ \E o \in RPCOutcomes : GetSAReturn(p, o)
                \/ CreateTokenOK(p) \/ CreateTokenEmpty(p) \/ CreateTokenFail(p))

SpecCheckFair == Spec /\ FairCheck

\* the decision of a finished check: Allow or Deny, Allow exactly when bearer
\* extraction, validation and exchange succeeded
Decision(p) ==
    /\ result[p].kind \in {"Allow", "Deny"}
    /\ result[p].kind = "Allow" <=>
          /\ extractBearerToken(request[p].headers).ok
          /\ calls[p].validated /\ calls[p].verr = ""
          /\ calls[p].exchange = 1 /\ calls[p].xerr = ""
    /\ result[p].kind = "Allow" =>
          /\ result[p].code = "OK"
          /\ Len(result[p].mutations) = 1
          /\ result[p].mutations[1] =
                 [key |-> "authorization", scheme |-> "Bearer ",
                  token |-> lastSet[identity[p].UID].token,
                  action |-> "OVERWRITE_IF_EXISTS_OR_ADD"]
    /\ result[p].kind = "Deny" =>
          /\ result[p].mutations = << >>
          /\ result[p].code \in {"Unauthenticated", "PermissionDenied"}

\* C35: Check always terminates with exactly one decision and never with an
\* error of the RPC itself: Allow if and only if bearer extraction, validation
\* and exchange all succeeded, carrying exactly one header mutation
\* (authorization = "Bearer " + the exchanger's token, overwrite-or-add) and
\* status OK; Deny in every other case, carrying no header mutation.
C35_ExactlyOneDecision ==
    /\ [](\A p \in Tasks : pc[p] = "done" => Decision(p))
    /\ \A p \in Sequential : (pc[p] # "idle") ~> (pc[p] = "done")

\* a check that went through a JWKS fetch and both management calls has
\* returned Allow with the token it stored
C35_Witness ==
    \E p \in Tasks :
        /\ pc[p] = "done" /\ result[p].kind = "Allow"
        /\ calls[p].fetch = 1 /\ calls[p].getSA = 1 /\ calls[p].cacheSet = 1
        /\ Returned(p) = entries[identity[p].UID].token

\* the exchange of p returns in this step while the management cluster has no
\* service account for the identity of p
ReturnsForAbsentAccount(p) ==
    /\ pc[p] # "done" /\ pc'[p] = "done"
    /\ calls'[p].exchange = 1
    /\ << identity'[p].Namespace, identity'[p].Name >> \notin mgmt

\* C37: Exchange for an identity returns an error whenever the service
\* account of that namespace and name is absent from the management cluster
\* at the time of the call: no token is returned for a management-side
\* service account that was deleted after the token was minted.
C37_AbsentAccountNoToken ==
    [][\A p \in Tasks :
         ReturnsForAbsentAccount(p) =>
             result'[p].kind = "Deny" /\ calls'[p].xerr # ""
      ]_vars

\* C37, amended: Exchange returns an error whenever the service account is
\* absent from the management cluster at the time of the call and the call
\* misses the cache; a token is returned for an absent account only on a
\* cache hit, and it is the stored token of the identity's uid, which
\* Cache.Get still returns, the management cluster not being asked.
C37_AbsentAccountOnlyFromCache ==
    [][\A p \in Tasks :
         ReturnsForAbsentAccount(p) =>
             \/ result'[p].kind = "Deny" /\ calls'[p].xerr # ""
             \/ /\ calls'[p].getSA = 0 /\ calls'[p].createToken = 0
                /\ calls'[p].cacheSet = 0
                /\ entries[identity'[p].UID].present
                /\ now <= entries[identity'[p].UID].expiresAt
                /\ result'[p] =
                       okResponseWithToken(entries[identity'[p].UID].token)
                /\ mints' = mints /\ entries' = entries
      ]_vars

\* a check was allowed from the cache although the management cluster has no
\* service account for its identity any more
C37_Witness ==
    \E p \in Tasks :
        /\ pc[p] = "done" /\ result[p].kind = "Allow"
        /\ calls[p].exchange = 1 /\ calls[p].getSA = 0
        /\ << identity[p].Namespace, identity[p].Name >> \notin mgmt
        /\ entries[identity[p].UID].present
        /\ Returned(p) = entries[identity[p].UID].token

\* the cluster the issuer of the token under validation is registered for
ClusterOf(tok) == FindByIssuer(Clusters, tok.iss).cluster

\* Validate gets as far as getJWKS for a cluster that carries inline keys
InlineKeysCall ==
    /\ ~vout.done /\ vout'.done
    /\ ValidateIssuer(vin.cred, vin.tok).ok
    /\ ~ClusterOf(vin.tok).JWKSData.nil

\* C34: For a cluster that carries inline JWKS, getJWKS returns that inline
\* key set on every call: it fetches nothing, it neither reads nor writes the
\* remote JWKS cache, and it never fails.
C34_InlineKeysDirect ==
    [][InlineKeysCall =>
          /\ \A c \in CachedBefore(now) :
                getJWKS(ClusterOf(vin.tok), [u \in URIs |-> c], now) =
                    [fetch |-> FALSE, jwks |-> ClusterOf(vin.tok).JWKSData.Keys]
          /\ ~vout'.fetched
          /\ jwksCache' = jwksCache
          /\ vout'.res.err \notin FetchErrors
          /\ vout'.res =
                 ValidateWithKeys(vin.tok, ClusterOf(vin.tok).JWKSData.Keys, now)
      ]_vars

\* a token of the cluster with inline keys has been validated while the
\* remote JWKS cache holds an entry that is no longer fresh
C34_Witness ==
    /\ vout.done /\ vout.res.ok /\ ~vout.fetched
    /\ vin.tok # NoJWT /\ ~ClusterOf(vin.tok).JWKSData.nil
    /\ \E u \in URIs :
          /\ jwksCache[u].present
          /\ now - jwksCache[u].fetchedAt >= JWKSFreshness

\* C38: ExchangeWithMetadata reports the same ServiceAccountUID for an
\* identity whether the token was minted by the call or taken from the cache:
\* a hit reports the UID that the miss which minted the cached token
\* reported, the UID of the management service account the token is for.
C38_SameUIDOnHitAndMiss ==
    [][~meta.done /\ meta'.done /\ meta'.err = "" =>
          meta'.ServiceAccountUID =
              MgmtUID(<< meta'.Token.ns, meta'.Token.name >>)
      ]_vars

\* C36: Under any interleaving of concurrent Exchange calls for one uid that
\* all miss the cache, each call mints a token of its own (there is no
\* single-flight) and returns the token it minted; the cache holds one entry
\* for the uid, the (token, expiresAt) of the call whose Set came last, and a
\* later Get, as long as that entry is in the map and has not expired,
\* returns that token.
C36_ConcurrentMisses ==
    [][\A p \in Tasks :
         /\ lpc[p] = "createToken" /\ lpc'[p] = "xLock" =>
               /\ mints' = mints + 1
               /\ lv'[p].result.jti = mints'
               /\ \A q \in Tasks \ {p} : lv'[q].result # lv'[p].result
         /\ lpc[p] = "xWrite" /\ lpc'[p] = "xUnlock" =>
               /\ entries'[Workload.UID] =
                      CacheEntry(lv[p].result, lv[p].expiresAt)
               /\ \A u \in UIDs \ {Workload.UID} : entries'[u] = entries[u]
         /\ lpc[p] = "xUnlock" /\ lpc'[p] = "done" =>
               /\ lv'[p].result = lv[p].result
               /\ lv'[p].result.jti \in 1..mints
               /\ ~lv'[p].found
         /\ lpc[p] = "xRead" /\ lpc'[p] = "xRUnlock" =>
               /\ lv'[p].found => lv'[p].result = lastSet[Workload.UID].token
               /\ entries[Workload.UID].present
                     /\ now <= entries[Workload.UID].expiresAt => lv'[p].found
         /\ entries'[Workload.UID].present =>
               entries'[Workload.UID] = lastSet'[Workload.UID]
      ]_vars

\* two calls that missed at the same instant have both returned, each with
\* the token it minted, and the entry of the uid is the one stored last
C36_Witness ==
    /\ \A p \in Tasks : lpc[p] = "done" /\ ~lv[p].found
    /\ lv["p1"].result.jti = 2 /\ lv["p2"].result.jti = 1
    /\ lv["p1"].expiresAt = lv["p2"].expiresAt
    /\ entries[Workload.UID] = CacheEntry(lv["p2"].result, lv["p2"].expiresAt)

\* C39: Within one Exchange call, CreateToken is called only after
\* ServiceAccounts(ns).Get for the same namespace and name succeeded in that
\* call, and it carries the configured audiences and expiration (the defaults
\* "https://kubernetes.default.svc" and 3600 seconds where the configuration
\* gives none); Cache.Set is called only after CreateToken succeeded with a
\* token that is not empty.
C39_ExchangeCallOrder ==
    [][\A p \in Tasks :
         /\ pc'[p] = "createToken" /\ pc[p] # "createToken" =>
               /\ pc[p] = "getSA" /\ calls'[p].getSA = 1
               /\ calls'[p].xerr = ""
               /\ << identity'[p].Namespace, identity'[p].Name >> \in mgmt
         /\ calls'[p].createToken # calls[p].createToken /\ pc[p] # "done" =>
               /\ pc[p] = "createToken" /\ calls'[p].createToken = 1
               /\ calls[p].getSA = 1 /\ calls[p].xerr = ""
               /\ calls'[p].treq.Namespace = identity[p].Namespace
               /\ calls'[p].treq.Name = identity[p].Name
               /\ calls'[p].treq.Audiences =
                      IF exchanger.given.Audiences = << >>
                      THEN << "https://kubernetes.default.svc" >>
                      ELSE exchanger.given.Audiences
               /\ calls'[p].treq.ExpirationSeconds =
                      IF exchanger.given.ExpirationSeconds = {}
                      THEN {3600}
                      ELSE exchanger.given.ExpirationSeconds
         /\ calls'[p].cacheSet # calls[p].cacheSet /\ pc[p] # "done" =>
               /\ calls'[p].createToken = 1 /\ calls'[p].xerr = ""
               /\ calls'[p].treq # NoTokenRequest
               /\ entries'[identity[p].UID].token # EmptyToken
               /\ entries'[identity[p].UID].token.jti = mints'
               /\ mints' = mints + 1
         /\ (\E u \in UIDs : entries'[u].present /\ entries'[u] # entries[u]) =>
               \E q \in Tasks : calls'[q].cacheSet = calls[q].cacheSet + 1
      ]_vars

\* a check has stored the token it got for a request that carried the default
\* audience and the configured expiration
C39_Witness ==
    \E p \in Tasks :
        /\ pc[p] = "done" /\ calls[p].cacheSet = 1
        /\ exchanger.given = ExchangeConfig(<< >>, {600})
        /\ calls[p].treq =
               TokenRequest("app-prod", "eso-sa",
                            ExchangeConfig(<< "https://kubernetes.default.svc" >>,
                                           {600}))

====
